---- MODULE Spec2Model ----
(***************************************************************************)
(* A model of the resource sync and cache engine of simply-aws (saws):     *)
(*   - the cache store (internal/sync/cache.go),                           *)
(*   - the per-category sync orchestrators and the read-side loaders       *)
(*     (internal/sync/*.go),                                               *)
(*   - the in-memory sync progress tracker (SyncJob / activeSyncJob).      *)
(*                                                                         *)
(* The specifications share the variables:                                 *)
(*   Spec        one orchestrator run, then one load, over a durable cache *)
(*   SpecCache   concurrent writers of the cache table                     *)
(*   SpecTracker concurrent callers of the progress tracker                *)
(*   SpecPolicy, SpecRegions, SpecFault and the function specifications     *)
(*   at the end of the module.                                              *)
(* Each leaves the variables of the others at their initial values.        *)
(***************************************************************************)
EXTENDS Integers, Sequences, FiniteSets, TLC

VARIABLES
    cache,          \* table cache(key, value, synced_at): key -> row
    now,            \* the wall clock read by time.Now()
    dbFault,        \* TRUE while the store rejects statements (db.Exec errors)
    pendingW,       \* SpecCache: per run, the WriteCache statement in flight
    lastCommit,     \* SpecCache: per key, the statement committed last (run, value,
                    \* and, if it rewrote its run's own equal value, the old synced_at)
    replaced,       \* SpecCache: the keys whose row another run's statement replaced
    activeSyncJob,  \* SpecTracker: atomic.Pointer[SyncJob]: 0 (nil) or an address
    heap,           \* SpecTracker: the SyncJob records allocated so far
    thr,            \* SpecTracker: per goroutine, the tracker call in progress
    labels,         \* SpecTracker: per job, the labels of its applied increments
    pc,             \* Spec: position of the orchestrator / loader process
    results,        \* Spec: the []SyncResult being accumulated
    topErr,         \* Spec: the orchestrator's top-level error ("" is nil)
    acc,            \* Spec: the orchestrator's local enriched accumulator
    prior,          \* Spec: the cache table when the run started
    fetched,        \* Spec: per sub-resource, what the aws CLI answered in this run
    view,           \* Spec: what the last loader call returned
    loadCalls,      \* Spec: the Process Runner calls issued by the last loader call
    policyText,     \* SpecPolicy: the policy text given to ParseResourcePolicies
    policies,       \* SpecPolicy: what each call on that text returned, in call order
    regions,        \* SpecRegions: table regions(name, enabled): name -> enabled
    handlers,       \* SpecRegions: per HTTP handler goroutine, its position
    discoveries,    \* SpecRegions: the ec2 describe-regions calls issued so far
    regionOp,       \* SpecRegions: the last statement run on the regions table
    installed,      \* SpecRegions: awsStatus.Installed
    lastRead,       \* SpecFault: the ReadCache calls made and what each returned
    callArg,        \* function specifications: the arguments of the function applied
    callRet         \* function specifications: what each application returned

vars == <<cache, now, dbFault, pendingW, lastCommit, replaced, activeSyncJob, heap, thr, labels,
          pc, results, topErr, acc, prior, fetched, view, loadCalls,
          policyText, policies, regions, handlers, discoveries, regionOp, installed, lastRead,
          callArg, callRet>>

storeVars   == <<cache, now, dbFault>>
cacheVars   == <<pendingW, lastCommit, replaced>>
trackerVars == <<activeSyncJob, heap, thr, labels>>
syncVars    == <<pc, results, topErr, acc, prior, fetched, view, loadCalls>>
policyVars  == <<policyText, policies>>
regionVars  == <<regions, handlers, discoveries, regionOp, installed>>
callVars    == <<callArg, callRet>>
auxVars     == <<policyVars, regionVars, lastRead, callVars>>

(***************************************************************************)
(* Bounds of the model.                                                    *)
(***************************************************************************)
MaxClock  == 1    \* the clock ticks at most this many times
MaxJobs   == 2    \* StartSync calls in one SpecTracker behaviour
MaxIncr   == 2    \* IncrSync calls in one SpecTracker behaviour
MaxParses == 2    \* ParseResourcePolicies calls on one text in one SpecPolicy behaviour
MaxDiscoveries == 2   \* ec2 describe-regions calls in one SpecRegions behaviour
MaxReads  == 2    \* ReadCache calls recorded in one SpecFault behaviour
MaxRoutes == 3    \* routes of the route table classified in SpecRoutes
MaxResults == 3   \* results of the category reported in SpecReport

(***************************************************************************)
(* The cache store: internal/sync/cache.go                                 *)
(***************************************************************************)

\* A blob is a byte sequence.  string(data) on the way in and
\* json.RawMessage(value) on the way out copy the bytes unchanged.
Row(value, t) == [value |-> value, synced_at |-> t]

\* A WriteCache whose statement leaves an existing row alone (INSERT OR IGNORE).
DbExecUpsert_InsertOnly(tbl, key, value, t) ==
    IF key \in DOMAIN tbl THEN tbl
    ELSE [k \in DOMAIN tbl \cup {key} |-> IF k = key THEN Row(value, t) ELSE tbl[k]]

\* A WriteCache whose update is not one atomic replace: the row keeps the tail
\* of the value it held where the new value is shorter or equal in length.
DbExecUpsert_Torn(tbl, key, value, t) ==
    IF key \in DOMAIN tbl /\ Len(tbl[key].value) > 1 /\ Len(value) > 0
    THEN [tbl EXCEPT ![key] = Row(<<value[1]>> \o Tail(tbl[key].value), t)]
    ELSE [k \in DOMAIN tbl \cup {key} |-> IF k = key THEN Row(value, t) ELSE tbl[k]]

\* A WriteCache whose conflict clause updates the value only.
DbExecUpsert_KeepTimestamp(tbl, key, value, t) ==
    [k \in DOMAIN tbl \cup {key} |->
        IF k = key THEN Row(value, IF key \in DOMAIN tbl THEN tbl[key].synced_at ELSE t)
        ELSE tbl[k]]

\* INSERT INTO cache (key, value, synced_at) VALUES (?, ?, ?)
\*   ON CONFLICT(key) DO UPDATE SET value=excluded.value, synced_at=excluded.synced_at
\* One statement: SQLite applies it atomically under the database write lock.
DbExecUpsert(tbl, key, value, t) ==
    [k \in DOMAIN tbl \cup {key} |-> IF k = key THEN Row(value, t) ELSE tbl[k]]

\* WriteCache(key, data) as one synchronous call; time.Now() is the third bind.
\* The result is the table afterwards and the returned error ("" is nil).
WriteCache(tbl, key, data) ==
    IF dbFault
    THEN [tbl |-> tbl, err |-> "sql: statement failed"]
    ELSE [tbl |-> DbExecUpsert(tbl, key, data, now), err |-> ""]

\* A ReadCache that returns (nil, nil) on every error of the query.
ReadCache_AbsentOnError(tbl, key) ==
    IF dbFault \/ key \notin DOMAIN tbl THEN [raw |-> <<>>, err |-> ""]
    ELSE [raw |-> <<tbl[key].value>>, err |-> ""]

\* ReadCache(key): (nil, nil) on sql.ErrNoRows, (nil, err) on any other error,
\* (value, nil) otherwise.  raw is <<>> for nil and <<value>> for a value.
ReadCache(tbl, key) ==
    IF dbFault THEN [raw |-> <<>>, err |-> "sql: query failed"]
    ELSE IF key \notin DOMAIN tbl THEN [raw |-> <<>>, err |-> ""]
    ELSE [raw |-> <<tbl[key].value>>, err |-> ""]

\* SELECT COUNT(*) FROM cache WHERE key = ?  (a failed query scans nothing: 0)
CacheExists(tbl, key) == ~dbFault /\ key \in DOMAIN tbl

EmptyTable == [k \in {} |-> Row(<<>>, 0)]

(***************************************************************************)
(* SpecCache: sync runs writing the cache table concurrently.  A WriteCache *)
(* call binds its arguments (WriteCacheCall), then the statement executes  *)
(* (WriteCacheExec); statements of different runs may interleave.          *)
(***************************************************************************)
Runs      == {"run1", "run2"}
CacheKeys == {"us-east-1:vpcs", "iam:enriched"}
Blobs     == {<<>>, <<"a", "a">>, <<"b", "b">>}

InitStore == /\ cache = EmptyTable
             /\ now = 0
             /\ dbFault = FALSE

InitCacheVars == /\ pendingW = [r \in Runs |-> <<>>]
                 /\ lastCommit = [k \in CacheKeys |-> <<>>]
                 /\ replaced = {}

\* time passes
Tick ==
    /\ now < MaxClock
    /\ now' = now + 1

WriteCacheCall(r, key, data) ==
    /\ pendingW[r] = <<>>
    /\ pendingW' = [pendingW EXCEPT ![r] = <<[key |-> key, value |-> data, synced_at |-> now]>>]
    /\ UNCHANGED <<storeVars, lastCommit, replaced>>

WriteCacheExec(r) ==
    /\ pendingW[r] # <<>>
    /\ LET w == pendingW[r][1] IN
        /\ cache' = DbExecUpsert(cache, w.key, w.value, w.synced_at)
        /\ lastCommit' = [lastCommit EXCEPT ![w.key] =
               <<[run |-> r, value |-> w.value,
                  again |-> IF /\ w.key \in DOMAIN cache
                               /\ cache[w.key].value = w.value
                               /\ lastCommit[w.key][1].run = r
                            THEN <<cache[w.key].synced_at>> ELSE <<>>]>>]
        /\ replaced' = IF /\ w.key \in DOMAIN cache
                          /\ cache[w.key].value # w.value
                          /\ lastCommit[w.key][1].run # r
                       THEN replaced \cup {w.key} ELSE replaced
    /\ pendingW' = [pendingW EXCEPT ![r] = <<>>]
    /\ UNCHANGED <<now, dbFault>>

CacheTick ==
    /\ Tick
    /\ UNCHANGED <<cache, dbFault, cacheVars>>


InitTrackerVars == /\ activeSyncJob = 0
                   /\ heap = <<>>
                   /\ thr = [t \in {"g1", "g2"} |-> [pc |-> "idle", job |-> 0, arg |-> "",
                                                    late |-> FALSE, id |-> -1,
                                                    refused |-> FALSE]]
                   /\ labels = <<>>

\* The sync process is not part of SpecCache and SpecTracker.
Off == [fn |-> "off", step |-> 0, ret |-> FALSE]
InitSyncIdle == /\ pc = Off
                /\ results = <<>>
                /\ topErr = ""
                /\ acc = <<>>
                /\ prior = EmptyTable
                /\ fetched = <<>>
                /\ view = [data |-> <<>>, err |-> ""]
                /\ loadCalls = <<>>

\* The policy parser, the regions table and the fault-injected store are not
\* part of SpecCache, SpecTracker and Spec.
InitPolicyOff  == policyText = <<>> /\ policies = <<>>
InitRegionsOff == /\ regions = <<>>
                  /\ handlers = <<>>
                  /\ discoveries = 0
                  /\ regionOp = <<>>
                  /\ installed = FALSE
InitReadOff    == lastRead = <<>>
InitCallOff    == callArg = <<>> /\ callRet = <<>>
InitAuxOff     == InitPolicyOff /\ InitRegionsOff /\ InitReadOff /\ InitCallOff

InitCache == InitStore /\ InitCacheVars /\ InitTrackerVars /\ InitSyncIdle /\ InitAuxOff

NextCache ==
    \/ \E r \in Runs, key \in CacheKeys, data \in Blobs :
           WriteCacheCall(r, key, data) /\ UNCHANGED <<trackerVars, syncVars, auxVars>>
    \/ \E r \in Runs : WriteCacheExec(r) /\ UNCHANGED <<trackerVars, syncVars, auxVars>>
    \/ CacheTick /\ UNCHANGED <<trackerVars, syncVars, auxVars>>

SpecCache == InitCache /\ [][NextCache]_vars

\* C2: after any sequence of WriteCache calls, ReadCache(key) returns the blob of
\* the most recent WriteCache on that key (nil when the key was never written):
\* one row per key, a write on an existing key replaces its value, and writes on
\* other keys leave it alone.
C2_LastWriteWins ==
    \A k \in CacheKeys :
        /\ ReadCache(cache, k).err = ""
        /\ ReadCache(cache, k).raw = IF lastCommit[k] = <<>> THEN <<>>
                                     ELSE <<lastCommit[k][1].value>>

\* C2 witness: a row was replaced by a later write and every other key was
\* written too.
C2_Witness ==
    /\ replaced # {}
    /\ \A k \in CacheKeys : lastCommit[k] # <<>> /\ k \in DOMAIN cache

\* One step of the store leaves every row either as it was or holding, whole,
\* the blob of a statement that was in flight; and the statement that commits
\* is what a read returns right after.
C3_Step ==
    /\ \A k \in DOMAIN cache' :
          \/ k \in DOMAIN cache /\ cache'[k].value = cache[k].value
          \/ \E r \in Runs : /\ pendingW[r] # <<>>
                              /\ pendingW[r][1].key = k
                              /\ cache'[k].value = pendingW[r][1].value
    /\ \A r \in Runs :
          (pendingW[r] # <<>> /\ pendingW'[r] = <<>>) =>
              ReadCache(cache', pendingW[r][1].key).raw = <<pendingW[r][1].value>>

\* C3: when two sync runs write the same key, sequentially or interleaved, the
\* stored blob is never a mix of both: a read returns the previous value or one
\* written blob in its entirety, and after both writes the value of the write
\* that committed last.
C3_NeverAMix == [][C3_Step]_vars

\* C3 witness: both runs have written the same key with different blobs and no
\* statement is in flight; the row holds the blob committed last.
C3_Witness ==
    \E k \in replaced :
        /\ \A r \in Runs : pendingW[r] = <<>>
        /\ cache[k].value = lastCommit[k][1].value
        /\ cache[k].value # <<>>

(***************************************************************************)
(* The sync progress tracker: SyncJob, activeSyncJob and its operations.   *)
(* A goroutine's call is a sequence of steps: the Load of the pointer with *)
(* the guard, then one step per store to a field of the shared record.     *)
(***************************************************************************)
Threads == {"g1", "g2"}
Tabs    == {"vpc"}
StepLabels == {"vpcs", "subnets"}
ErrMsgs == {"aws ec2: AccessDenied"}

\* A goroutine outside any tracker call.  id is the jobID argument of the call
\* in progress; refused tells that its last call returned at the guard; raced
\* tells that the store it is about to make overlaps a store another goroutine
\* has already completed on the same field.
Idle == [pc |-> "idle", job |-> 0, arg |-> "", late |-> FALSE, id |-> -1, refused |-> FALSE,
         raced |-> FALSE]

\* &SyncJob{ID: id, Status: "running", Tab: tab, Region: region}
NewSyncJob(id, tab, region) ==
    [ID |-> id, Completed |-> 0, Status |-> "running", Tab |-> tab, Region |-> region,
     CurrentStep |-> "", Error |-> ""]

\* Go's garbage collector: a SyncJob that neither activeSyncJob nor a goroutine
\* still points to can no longer be observed.  Its record is reset, keeping ID,
\* the value StartSync returned to its caller.
Reachable(a, active, th) == a = active \/ \E t \in DOMAIN th : th[t].job = a
Collect(h, active, th) ==
    [a \in DOMAIN h |-> IF Reachable(a, active, th) THEN h[a]
                         ELSE [h[a] EXCEPT !.Completed = 0, !.Status = "collected",
                                           !.CurrentStep = "", !.Error = ""]]
CollectLabels(l, active, th) ==
    [a \in DOMAIN l |-> IF Reachable(a, active, th) THEN l[a] ELSE <<>>]

\* The job IDs handed out so far: what a caller can hold.
IssuedIDs == {heap[a].ID : a \in DOMAIN heap}

\* A guard that only tests job == nil.
GuardPasses_NoIDCheck(jobID) == activeSyncJob # 0

\* The guard shared by IncrSync, FinishSync and ErrorSync:
\*   job := activeSyncJob.Load(); if job == nil || job.ID != jobID { return }
GuardPasses(jobID) == activeSyncJob # 0 /\ heap[activeSyncJob].ID = jobID

\* id := fmt.Sprintf("%d", time.Now().UnixNano()): the decimal rendering of the
\* clock reading, one-to-one with the reading.
\* elapsed is the time that passed since the clock was last read (0: the same
\* reading again).
StartSync(t, tab, region, elapsed) ==
    /\ thr[t].pc = "idle"
    /\ Len(heap) < MaxJobs
    /\ now + elapsed <= MaxClock
    /\ now' = now + elapsed
    /\ activeSyncJob' = Len(heap) + 1
    /\ heap' = Collect(Append(heap, NewSyncJob(now', tab, region)), activeSyncJob', thr)
    /\ labels' = CollectLabels(Append(labels, <<>>), activeSyncJob', thr)
    /\ UNCHANGED thr

\* Increments applied or still to be applied by calls that passed the guard.
IncrIssued ==
    LET Sum[a \in 0..Len(heap)] == IF a = 0 THEN 0 ELSE heap[a].Completed + Sum[a - 1]
    IN Sum[Len(heap)] + Cardinality({t \in Threads : thr[t].pc = "incr-add"})

\* The Load and guard of IncrSync / FinishSync / ErrorSync.
CallLoad(t, jobID, arg, first) ==
    /\ thr[t].pc = "idle"
    /\ IF GuardPasses(jobID)
       THEN thr' = [thr EXCEPT ![t] = [pc |-> first, job |-> activeSyncJob, arg |-> arg,
                                       late |-> heap[activeSyncJob].Status # "running",
                                       id |-> jobID, refused |-> FALSE, raced |-> FALSE]]
       ELSE thr' = [thr EXCEPT ![t] = [Idle EXCEPT !.refused = TRUE]]
    /\ UNCHANGED <<activeSyncJob, heap, labels>>

\* The string fields of a SyncJob are written in place with plain stores
\* (job.Status = ..., job.CurrentStep = ..., job.Error = ...).  A Go string is
\* two words; two goroutines storing different strings to the same field at the
\* same time are a data race that can leave the pointer of one and the length of
\* the other ("torn").  Racing(t, pcs, v, other) are the goroutines whose store
\* to the field is in flight while t stores v, other[u] being the string thread
\* u is storing.  Raced(t, pcs, v, other) is what the store of v by t can leave:
\* v, or a torn string when the store overlaps one in flight or one that
\* completed while it was in flight.  Overlap marks, in th, the goroutines
\* whose word stores interleaved with the store of t that left out.
Racing(t, pcs, v, other) ==
    {u \in Threads \ {t} : /\ thr[u].pc \in pcs
                            /\ thr[u].job = thr[t].job
                            /\ other[u] # v}
Raced(t, pcs, v, other) ==
    {v} \cup {"torn" : u \in Racing(t, pcs, v, other)}
        \cup {"torn" : u \in {u \in {t} : thr[u].raced}}
Overlap(th, t, pcs, v, other, out) ==
    [u \in Threads |-> IF out = "torn" /\ u \in Racing(t, pcs, v, other)
                        THEN [th[u] EXCEPT !.raced = TRUE]
                        ELSE th[u]]

StatusOf == [u \in Threads |-> IF thr[u].pc = "finish-status" THEN "done" ELSE "error"]
ArgOf    == [u \in Threads |-> thr[u].arg]

IncrSyncLoad(t, jobID, label) ==
    /\ IncrIssued < MaxIncr
    /\ CallLoad(t, jobID, label, "incr-add")

\* atomic.AddInt64(&job.Completed, 1)
IncrSyncAdd(t) ==
    /\ thr[t].pc = "incr-add"
    /\ heap' = [heap EXCEPT ![thr[t].job].Completed = @ + 1]
    /\ labels' = [labels EXCEPT ![thr[t].job] = Append(@, thr[t].arg)]
    /\ thr' = [thr EXCEPT ![t].pc = "incr-label"]
    /\ UNCHANGED activeSyncJob

\* job.CurrentStep = label
IncrSyncLabel(t) ==
    /\ thr[t].pc = "incr-label"
    /\ \E v \in Raced(t, {"incr-label"}, thr[t].arg, ArgOf) :
           /\ thr' = Overlap([thr EXCEPT ![t] = Idle], t, {"incr-label"}, thr[t].arg, ArgOf, v)
           /\ heap' = Collect([heap EXCEPT ![thr[t].job].CurrentStep = v], activeSyncJob, thr')
    /\ labels' = CollectLabels(labels, activeSyncJob, thr')
    /\ UNCHANGED activeSyncJob

FinishSyncLoad(t, jobID) == CallLoad(t, jobID, "", "finish-status")

\* job.Status = "done"
FinishSyncStatus(t) ==
    /\ thr[t].pc = "finish-status"
    /\ \E v \in Raced(t, {"finish-status", "error-status"}, "done", StatusOf) :
           /\ thr' = Overlap([thr EXCEPT ![t] = Idle], t, {"finish-status", "error-status"},
                             "done", StatusOf, v)
           /\ heap' = Collect([heap EXCEPT ![thr[t].job].Status = v], activeSyncJob, thr')
    /\ labels' = CollectLabels(labels, activeSyncJob, thr')
    /\ UNCHANGED activeSyncJob

ErrorSyncLoad(t, jobID, errMsg) == CallLoad(t, jobID, errMsg, "error-status")

\* job.Status = "error"
ErrorSyncStatus(t) ==
    /\ thr[t].pc = "error-status"
    /\ \E v \in Raced(t, {"finish-status", "error-status"}, "error", StatusOf) :
           /\ heap' = [heap EXCEPT ![thr[t].job].Status = v]
           /\ thr' = Overlap([thr EXCEPT ![t].pc = "error-error", ![t].raced = FALSE], t,
                             {"finish-status", "error-status"}, "error", StatusOf, v)
    /\ UNCHANGED <<activeSyncJob, labels>>

\* job.Error = errMsg
ErrorSyncError(t) ==
    /\ thr[t].pc = "error-error"
    /\ \E v \in Raced(t, {"error-error"}, thr[t].arg, ArgOf) :
           /\ thr' = Overlap([thr EXCEPT ![t] = Idle], t, {"error-error"}, thr[t].arg, ArgOf, v)
           /\ heap' = Collect([heap EXCEPT ![thr[t].job].Error = v], activeSyncJob, thr')
    /\ labels' = CollectLabels(labels, activeSyncJob, thr')
    /\ UNCHANGED activeSyncJob

\* activeSyncJob.Store(nil)
ClearSync(t) ==
    /\ thr[t].pc = "idle"
    /\ activeSyncJob # 0
    /\ activeSyncJob' = 0
    /\ heap' = Collect(heap, 0, thr)
    /\ labels' = CollectLabels(labels, 0, thr)
    /\ UNCHANGED thr

\* GetSyncProgress(): the pointer; the caller then reads the record it points to.
GetSyncProgress == IF activeSyncJob = 0 THEN <<>> ELSE <<heap[activeSyncJob]>>

\* IsSyncing(): job != nil && job.Status == "running"
IsSyncing == activeSyncJob # 0 /\ heap[activeSyncJob].Status = "running"

InitTracker == InitStore /\ InitCacheVars /\ InitTrackerVars /\ InitSyncIdle /\ InitAuxOff

NextTracker ==
    \/ \E t \in Threads, tab \in Tabs, elapsed \in {0, 1} :
           StartSync(t, tab, "us-east-1", elapsed)
           /\ UNCHANGED <<cache, dbFault, cacheVars, syncVars, auxVars>>
    \/ \E t \in Threads, id \in IssuedIDs, l \in StepLabels :
           IncrSyncLoad(t, id, l) /\ UNCHANGED <<storeVars, cacheVars, syncVars, auxVars>>
    \/ \E t \in Threads : IncrSyncAdd(t) /\ UNCHANGED <<storeVars, cacheVars, syncVars, auxVars>>
    \/ \E t \in Threads : IncrSyncLabel(t) /\ UNCHANGED <<storeVars, cacheVars, syncVars, auxVars>>
    \/ \E t \in Threads, id \in IssuedIDs :
           FinishSyncLoad(t, id) /\ UNCHANGED <<storeVars, cacheVars, syncVars, auxVars>>
    \/ \E t \in Threads : FinishSyncStatus(t) /\ UNCHANGED <<storeVars, cacheVars, syncVars, auxVars>>
    \/ \E t \in Threads, id \in IssuedIDs, m \in ErrMsgs :
           ErrorSyncLoad(t, id, m) /\ UNCHANGED <<storeVars, cacheVars, syncVars, auxVars>>
    \/ \E t \in Threads : ErrorSyncStatus(t) /\ UNCHANGED <<storeVars, cacheVars, syncVars, auxVars>>
    \/ \E t \in Threads : ErrorSyncError(t) /\ UNCHANGED <<storeVars, cacheVars, syncVars, auxVars>>
    \/ \E t \in Threads : ClearSync(t) /\ UNCHANGED <<storeVars, cacheVars, syncVars, auxVars>>

SpecTracker == InitTracker /\ [][NextTracker]_vars

\* The fields C9 speaks of.
Settled(j) == <<j.Status, j.Error, j.Completed>>

\* C9: a job that is done or error is terminal: a FinishSync, ErrorSync or
\* IncrSync call that starts after the job became done or error (late) changes
\* neither its status, nor its error message, nor its completed-step count.
C9_TerminalIsFinal ==
    [][\A t \in Threads :
          (thr[t].late /\ thr'[t].pc # thr[t].pc /\ Reachable(thr[t].job, activeSyncJob', thr')) =>
              Settled(heap'[thr[t].job]) = Settled(heap[thr[t].job])]_vars

\* C10: a GetSyncProgress caller never observes a partial update: not status
\* "error" with the error message not yet set, and not a step count whose
\* latest increment's label is not yet the current step.
C10_FullyFormedSnapshot ==
    \A i \in DOMAIN GetSyncProgress :
        LET j == GetSyncProgress[i] IN
        /\ j.Status = "error" => j.Error # ""
        /\ j.Completed > 0 => j.CurrentStep = labels[activeSyncJob][j.Completed]

\* The fields of a job that IncrSync, FinishSync and ErrorSync write.
Progress(j) == <<j.Completed, j.CurrentStep, j.Status, j.Error>>

\* C11: IncrSync, FinishSync and ErrorSync called with a job ID that does not
\* match the active job (a stale caller after a new StartSync, or no active job
\* after ClearSync) are no-ops: the call returns at the guard changing nothing,
\* and whenever the active job's completed count, step label, status or error
\* changes, the step is a store of a call that was given that job's ID.
C11_MismatchIsNoOp ==
    [][/\ \A t \in Threads :
             (thr'[t].refused /\ thr'[t] # thr[t]) =>
                 heap' = heap /\ activeSyncJob' = activeSyncJob /\ labels' = labels
       /\ \A a \in DOMAIN heap :
             (activeSyncJob = a /\ activeSyncJob' = a /\ Progress(heap'[a]) # Progress(heap[a])) =>
                 \E t \in Threads : /\ thr[t].pc # "idle"
                                    /\ thr[t].job = a
                                    /\ thr[t].id = heap[a].ID]_vars

\* C11 witness: a second job is active, a caller holding the first job's ID has
\* just been turned away at the guard, and the active job is as StartSync made it.
C11_Witness ==
    /\ Len(heap) = 2
    /\ activeSyncJob = 2
    /\ heap[1].ID # heap[2].ID
    /\ \E t \in Threads : thr[t].refused
    /\ \A t \in Threads : thr[t].pc = "idle"
    /\ Progress(heap[2]) = <<0, "", "running", "">>

\* C12: at most one SyncJob is live: StartSync installs a fresh job (running,
\* zero completed steps, no error) which GetSyncProgress then returns, and the
\* job it replaces is terminal (done or error): a sync that is still running
\* is never replaced.
C12_RunningNeverReplaced ==
    [][(activeSyncJob' # activeSyncJob /\ activeSyncJob' # 0) =>
          /\ activeSyncJob' = Len(heap')
          /\ Progress(heap'[activeSyncJob']) = <<0, "", "running", "">>
          /\ activeSyncJob # 0 => heap[activeSyncJob].Status \in {"done", "error"}]_vars

\* C29: any two StartSync calls return distinct job IDs, so that a caller
\* still holding the ID of a replaced job can never advance, finish or fail
\* the job that replaced it, also for two syncs started back to back or
\* concurrently.
C29_DistinctJobIDs ==
    \A a, b \in DOMAIN heap :
        /\ a # b => heap[a].ID # heap[b].ID
        /\ (a # b /\ b = activeSyncJob) => ~GuardPasses(heap[a].ID)

\* C30: under any interleaving of concurrent IncrSync calls that carry the
\* active job's ID, no increment is lost: once all calls have returned, the
\* job's completed-step count equals the number of such calls, and the
\* current-step label is the label of one of them.
C30_NoLostIncrement ==
    (activeSyncJob # 0 /\ \A t \in Threads : thr[t].pc = "idle") =>
        /\ heap[activeSyncJob].Completed = Len(labels[activeSyncJob])
        /\ labels[activeSyncJob] # <<>> =>
               \E i \in 1..Len(labels[activeSyncJob]) :
                   heap[activeSyncJob].CurrentStep = labels[activeSyncJob][i]

(***************************************************************************)
(* The Process Runner: internal/awscli/regions.go                          *)
(***************************************************************************)

Region == "us-east-1"

\* A JSON document with one top-level list, {"<key>": [items...]}.  The empty
\* object {} has no key; NilDoc is the nil json.RawMessage.
Obj(key, items) == [key |-> key, items |-> items]
EmptyObj == Obj("", <<>>)
NilDoc   == Obj("", <<>>)

\* What one invocation of the aws CLI does: exit status, stdout, stderr, and
\* the error of cmd.Output() that is not an *exec.ExitError ("" when none:
\* the process could be started and its output read).
AwsFails     == [exit |-> 1, stdout |-> NilDoc, stderr |-> "AccessDenied", cause |-> ""]
AwsPrints(d) == [exit |-> 0, stdout |-> d, stderr |-> "", cause |-> ""]
Aws(docs)    == {AwsFails} \cup {AwsPrints(d) : d \in docs}

\* A Run that tests for *exec.ExitError only and otherwise returns stdout.
Run_ExitErrorOnly(args, aws) ==
    IF aws.cause = "" /\ aws.exit # 0
    THEN [out |-> NilDoc, err |-> "aws " \o args[1] \o ": " \o aws.stderr]
    ELSE [out |-> aws.stdout, err |-> ""]

\* Run(args...): when cmd.Output() fails with an *exec.ExitError, the error
\* "aws <args[0]>: <stderr>"; when it fails otherwise, "aws <args[0]>: <cause>"
\* (%w); otherwise stdout as raw JSON.
Run(args, aws) ==
    IF aws.cause # ""
    THEN [out |-> NilDoc, err |-> "aws " \o args[1] \o ": " \o aws.cause]
    ELSE IF aws.exit # 0
    THEN [out |-> NilDoc, err |-> "aws " \o args[1] \o ": " \o aws.stderr]
    ELSE [out |-> aws.stdout, err |-> ""]

(***************************************************************************)
(* JSON as the orchestrators use it                                        *)
(***************************************************************************)

\* json.Marshal of a slice: a slice nothing was appended to is nil and is
\* rendered as the text null, otherwise as an array.
Marshal(slice) == [null |-> slice = <<>>, items |-> slice]

\* json.Unmarshal into a slice: null leaves the slice nil.
Unmarshal(blob) == IF blob.null THEN <<>> ELSE blob.items

\* countKey(data, key) that reports 0 whatever the document holds.
countKey_Zero(data, key) == 0

\* countKey(data, key): the length of the array under key; 0 when the key is
\* missing or the text is not such an object.
countKey(data, key) == IF data.key = key THEN Len(data.items) ELSE 0

\* One SyncResult.
SyncResult(service, count, error) == [Service |-> service, Count |-> count, Error |-> error]

\* The position of the sync process: the function it is in, the step it is at,
\* and whether the function has returned.
At(fn, step) == [fn |-> fn, step |-> step, ret |-> FALSE]
Returned(fn) == [fn |-> fn, step |-> 0, ret |-> TRUE]
AtIdle       == At("main", 0)

\* Ghost: remember what the aws CLI answered for a sub-resource of this run.
Remember(name, aws) == [n \in DOMAIN fetched \cup {name} |-> IF n = name THEN aws ELSE fetched[n]]

(***************************************************************************)
(* SyncVPCData: internal/sync/syncer.go, extended in internal/sync/iam.go  *)
(***************************************************************************)

VPCJobs == <<
    [name |-> "vpcs",            args |-> <<"ec2", "describe-vpcs">>,              countKey |-> "Vpcs"],
    [name |-> "subnets",         args |-> <<"ec2", "describe-subnets">>,           countKey |-> "Subnets"],
    [name |-> "igws",            args |-> <<"ec2", "describe-internet-gateways">>, countKey |-> "InternetGateways"],
    [name |-> "nat-gws",         args |-> <<"ec2", "describe-nat-gateways">>,      countKey |-> "NatGateways"],
    [name |-> "route-tables",    args |-> <<"ec2", "describe-route-tables">>,      countKey |-> "RouteTables"],
    [name |-> "security-groups", args |-> <<"ec2", "describe-security-groups">>,   countKey |-> "SecurityGroups"] >>

\* What the account may hold for a raw sub-resource now: nothing the CLI prints
\* a list for ({}), or one resource.
RawDocs(key) == {EmptyObj, Obj(key, <<"new">>)}

\* One sub-resource cached as the CLI printed it: Run, then on success
\* WriteCache(region:name, data) and a result with countKey(data, key), on
\* failure a result with the error text.
SyncRawJob(fn, step, job, aws) ==
    LET key == Region \o ":" \o job.name
        r   == Run(job.args, aws)
    IN /\ pc = At(fn, step)
       /\ IF r.err # ""
          THEN /\ results' = Append(results, SyncResult(job.name, 0, r.err))
               /\ cache' = cache
          ELSE /\ cache' = WriteCache(cache, key, r.out).tbl
               /\ results' = Append(results, SyncResult(job.name, countKey(r.out, job.countKey), ""))
       /\ fetched' = Remember(job.name, aws)
       /\ pc' = At(fn, step + 1)
       /\ UNCHANGED <<topErr, acc, prior, view, loadCalls>>

\* One iteration of the loop over jobs.
SyncVPCJob(i, aws) == SyncRawJob("SyncVPCData", i, VPCJobs[i], aws)

\* parseLB / parseTG keep the identifying fields of the raw element.
parseLB(lb) == [Name |-> lb.LoadBalancerName, VpcId |-> lb.VpcId]
parseTG(tg) == [Name |-> tg.TargetGroupName, VpcId |-> tg.VpcId]

ParseAll(items, parse(_)) == [i \in 1..Len(items) |-> parse(items[i])]

LBDocs == {EmptyObj, Obj("LoadBalancers", <<[LoadBalancerName |-> "new", VpcId |-> "vpc-1"]>>)}
TGDocs == {EmptyObj, Obj("TargetGroups", <<[TargetGroupName |-> "new", VpcId |-> "vpc-1"]>>)}

\* json.Unmarshal(data, &resp) into a struct with one list field.
ListField(data, key) == IF data.key = key THEN data.items ELSE <<>>

\* ELBv2 - Load Balancers
SyncVPCLoadBalancers(aws) ==
    LET r   == Run(<<"elbv2", "describe-load-balancers">>, aws)
        lbs == ParseAll(ListField(r.out, "LoadBalancers"), parseLB)
    IN /\ pc = At("SyncVPCData", 7)
       /\ IF r.err = ""
          THEN /\ cache' = WriteCache(cache, Region \o ":load-balancers", Marshal(lbs)).tbl
               /\ results' = Append(results, SyncResult("load-balancers", Len(lbs), ""))
          ELSE /\ results' = Append(results, SyncResult("load-balancers", 0, r.err))
               /\ cache' = cache
       /\ fetched' = Remember("load-balancers", aws)
       /\ pc' = At("SyncVPCData", 8)
       /\ UNCHANGED <<topErr, acc, prior, view, loadCalls>>

\* return results, nil
ReturnNil(fn) ==
    /\ pc' = Returned(fn)
    /\ topErr' = ""

\* ELBv2 - Target Groups, and the return.
SyncVPCTargetGroups(aws) ==
    LET r   == Run(<<"elbv2", "describe-target-groups">>, aws)
        tgs == ParseAll(ListField(r.out, "TargetGroups"), parseTG)
    IN /\ pc = At("SyncVPCData", 8)
       /\ IF r.err = ""
          THEN /\ cache' = WriteCache(cache, Region \o ":target-groups", Marshal(tgs)).tbl
               /\ results' = Append(results, SyncResult("target-groups", Len(tgs), ""))
          ELSE /\ results' = Append(results, SyncResult("target-groups", 0, r.err))
               /\ cache' = cache
       /\ fetched' = Remember("target-groups", aws)
       /\ ReturnNil("SyncVPCData")
       /\ UNCHANGED <<acc, prior, view, loadCalls>>

(***************************************************************************)
(* SyncComputeData and its parsers: internal/sync/compute.go               *)
(***************************************************************************)

\* A call the code does not reach is not made.
NotAsked == [exit |-> -1, stdout |-> NilDoc, stderr |-> "", cause |-> ""]

\* An ARN or URL is kept as its "/"-separated segments: strings.Split(x, "/").
LastSegment(parts) == parts[Len(parts)]

RECURSIVE Inline(_)
\* p + " (inline)" for each inline policy name.
Inline(names) == IF names = <<>> THEN <<>> ELSE <<Head(names) \o " (inline)">> \o Inline(Tail(names))

PolicyNamesOf(attached) == [i \in 1..Len(attached) |-> attached[i].PolicyName]

\* A resolution that gives up on the inline policies when the attached call
\* fails.
RolePolicies_AllOrNothing(roleName, w) ==
    LET a == Run(<<"iam", "list-attached-role-policies", "--role-name", roleName>>, w.attached)
        i == Run(<<"iam", "list-role-policies", "--role-name", roleName>>, w.inline)
    IN IF a.err # "" THEN <<>>
       ELSE PolicyNamesOf(ListField(a.out, "AttachedPolicies"))
            \o (IF i.err = "" THEN Inline(ListField(i.out, "PolicyNames")) ELSE <<>>)

\* The attached and the inline policies of a role: two calls, each dropped
\* silently when it fails.
RolePolicies(roleName, w) ==
    LET a == Run(<<"iam", "list-attached-role-policies", "--role-name", roleName>>, w.attached)
        i == Run(<<"iam", "list-role-policies", "--role-name", roleName>>, w.inline)
    IN (IF a.err = "" THEN PolicyNamesOf(ListField(a.out, "AttachedPolicies")) ELSE <<>>)
       \o (IF i.err = "" THEN Inline(ListField(i.out, "PolicyNames")) ELSE <<>>)

\* resolveInstanceProfile(profileArn): instance profile -> role -> policies.
resolveInstanceProfile(profileArn, w) ==
    LET profileName == LastSegment(profileArn)
        p     == Run(<<"iam", "get-instance-profile", "--instance-profile-name", profileName>>, w.profile)
        roles == ListField(p.out, "InstanceProfile.Roles")
    IN IF p.err = "" /\ Len(roles) > 0
       THEN [roleName |-> roles[1].RoleName,
             policies |-> RolePolicies(roles[1].RoleName, w),
             profileName |-> profileName,
             calls    |-> <<"iam get-instance-profile", "iam list-attached-role-policies",
                            "iam list-role-policies">>]
       ELSE [roleName |-> "", policies |-> <<>>, profileName |-> profileName,
             calls |-> <<"iam get-instance-profile">>]

\* parseEC2Instance(raw): the fields of the view, and the IAM role and policies
\* resolved through the Process Runner when the instance has a profile.
parseEC2Instance(raw, w) ==
    LET res == IF raw.IamInstanceProfile # <<>>
               THEN resolveInstanceProfile(raw.IamInstanceProfile, w)
               ELSE [roleName |-> "", policies |-> <<>>, calls |-> <<>>]
    IN [inst  |-> [InstanceId |-> raw.InstanceId, IamRole |-> res.roleName,
                   IamPolicies |-> res.policies],
        calls |-> res.calls]

\* parseECSCluster(raw)
parseECSCluster(raw) ==
    [ClusterName |-> raw.clusterName, ClusterArn |-> raw.clusterArn, Status |-> raw.status]

RECURSIVE Flatten(_)
\* for _, r := range resp.Reservations { for _, inst := range r.Instances {...} }
Flatten(reservations) ==
    IF reservations = <<>> THEN <<>>
    ELSE Head(reservations).Instances \o Flatten(Tail(reservations))

RECURSIVE Concat(_)
Concat(seqs) == IF seqs = <<>> THEN <<>> ELSE Head(seqs) \o Concat(Tail(seqs))

\* What the Process Runner answers to the calls of one resolveInstanceProfile.
NoCalls == [profile |-> NotAsked, attached |-> NotAsked, inline |-> NotAsked]
AttachedDocs == {Obj("AttachedPolicies", <<[PolicyName |-> "ReadOnly"]>>)}
InlineDocs   == {Obj("PolicyNames", <<"s3-put">>)}
ResolveWorlds ==
    {[profile |-> p, attached |-> NotAsked, inline |-> NotAsked] :
        p \in {AwsFails, AwsPrints(Obj("InstanceProfile.Roles", <<>>))}}
    \cup {[profile |-> AwsPrints(Obj("InstanceProfile.Roles", <<[RoleName |-> "role-new"]>>)),
           attached |-> a, inline |-> i] : a \in Aws(AttachedDocs), i \in Aws(InlineDocs)}

\* One world per raw instance: calls are answered only for an instance with a
\* profile.
InstanceWorlds(insts) ==
    {ws \in [1..Len(insts) -> ResolveWorlds \cup {NoCalls}] :
        \A i \in 1..Len(insts) :
            (insts[i].IamInstanceProfile = <<>>) <=> (ws[i] = NoCalls)}

ProfileArn == <<"arn:aws:iam::1:instance-profile", "web">>
EC2Docs ==
    {Obj("Reservations", <<>>),
     Obj("Reservations", <<[Instances |-> <<[InstanceId |-> "i-new", IamInstanceProfile |-> <<>>]>>]>>),
     Obj("Reservations", <<[Instances |-> <<[InstanceId |-> "i-new", IamInstanceProfile |-> ProfileArn]>>]>>)}

\* Sync security groups so SG detail links work from this tab: no result entry.
SyncSecurityGroupsQuietly(fn, aws) ==
    LET r == Run(<<"ec2", "describe-security-groups">>, aws)
    IN /\ pc = At(fn, 1)
       /\ cache' = IF r.err = "" THEN WriteCache(cache, Region \o ":security-groups", r.out).tbl
                   ELSE cache
       /\ fetched' = Remember("security-groups", aws)
       /\ pc' = At(fn, 2)
       /\ UNCHANGED <<results, topErr, acc, prior, view, loadCalls>>

\* EC2
SyncComputeEC2(aws, ws) ==
    LET r         == Run(<<"ec2", "describe-instances">>, aws)
        raws      == Flatten(ListField(r.out, "Reservations"))
        instances == [i \in 1..Len(raws) |-> parseEC2Instance(raws[i], ws[i]).inst]
    IN /\ pc = At("SyncComputeData", 2)
       /\ IF r.err = ""
          THEN /\ cache' = WriteCache(WriteCache(cache, Region \o ":ec2", r.out).tbl,
                                      Region \o ":ec2-enriched", Marshal(instances)).tbl
               /\ results' = Append(results, SyncResult("ec2", Len(instances), ""))
          ELSE /\ results' = Append(results, SyncResult("ec2", 0, r.err))
               /\ cache' = cache
       /\ fetched' = Remember("ec2.resolve", ws) @@ Remember("ec2", aws)
       /\ pc' = At("SyncComputeData", 3)
       /\ UNCHANGED <<topErr, acc, prior, view, loadCalls>>

ClusterArnDocs == {Obj("clusterArns", <<>>), Obj("clusterArns", <<"arn:aws:ecs:cluster/c1">>)}
ClusterDocs    == {Obj("clusters", <<[clusterName |-> "c-new", clusterArn |-> "arn:aws:ecs:cluster/c1",
                                      status |-> "ACTIVE"]>>)}

\* The describe-clusters call is made only for a non-empty list of ARNs.
DescribeWorlds(aws) ==
    IF aws.exit = 0 /\ Len(ListField(aws.stdout, "clusterArns")) > 0
    THEN Aws(ClusterDocs) ELSE {NotAsked}

\* ECS - list clusters, then describe
SyncComputeECS(aws, awsDesc) ==
    LET r        == Run(<<"ecs", "list-clusters">>, aws)
        arns     == ListField(r.out, "clusterArns")
        d        == Run(<<"ecs", "describe-clusters">>, awsDesc)
        clusters == IF Len(arns) > 0 /\ d.err = ""
                    THEN ParseAll(ListField(d.out, "clusters"), parseECSCluster)
                    ELSE <<>>
    IN /\ pc = At("SyncComputeData", 3)
       /\ IF r.err = ""
          THEN /\ cache' = WriteCache(cache, Region \o ":ecs-enriched", Marshal(clusters)).tbl
               /\ results' = Append(results, SyncResult("ecs", Len(clusters), ""))
          ELSE /\ results' = Append(results, SyncResult("ecs", 0, r.err))
               /\ cache' = cache
       /\ fetched' = Remember("ecs.describe", awsDesc) @@ Remember("ecs", aws)
       /\ pc' = At("SyncComputeData", 4)
       /\ UNCHANGED <<topErr, acc, prior, view, loadCalls>>

(***************************************************************************)
(* ParseResourcePolicies: internal/sync/iam.go                             *)
(***************************************************************************)

\* A decoded JSON value (interface{}): a string, an array, an object given as
\* its members in field order, or anything else (null, number, absent).
JStr(str)  == [t |-> "string", s |-> str, l |-> <<>>, m |-> <<>>]
JArr(list) == [t |-> "array",  s |-> "",  l |-> list, m |-> <<>>]
JMap(mem)  == [t |-> "object", s |-> "",  l |-> <<>>, m |-> mem]
JNull      == [t |-> "null",   s |-> "",  l |-> <<>>, m |-> <<>>]

\* The orders in which a range over a Go map of n members can visit them.
Perms(n) == {p \in [1..n -> 1..n] : \A i, j \in 1..n : p[i] = p[j] => i = j}

\* One visiting order per statement (for its Principal object, if it is one).
IterationOrders(stmts) ==
    {o \in [1..Len(stmts) -> UNION {Perms(Len(stmts[i].Principal.m)) : i \in 1..Len(stmts)}] :
        \A i \in 1..Len(stmts) : o[i] \in Perms(Len(stmts[i].Principal.m))}

\* case string: v ; case []interface{}: the first element when it is a string.
FirstString(v, otherwise) ==
    IF v.t = "string" THEN v.s
    ELSE IF v.t = "array" /\ Len(v.l) > 0 /\ v.l[1].t = "string" THEN v.l[1].s
    ELSE otherwise

RECURSIVE RangeOver(_, _, _)
\* for _, val := range v { ... p.Principal = ... }: every member that is a
\* string or a non-empty array overwrites the principal, in visiting order.
RangeOver(members, order, principal) ==
    IF order = <<>> THEN principal
    ELSE RangeOver(members, Tail(order), FirstString(members[Head(order)].v, principal))

\* A parser that has no "case string" for the principal.
ParseResourcePolicies_ScalarDropped(policyJSON, orders) ==
    LET stmts == ListField(policyJSON, "Statement")
    IN [i \in 1..Len(stmts) |->
          [Sid       |-> stmts[i].Sid,
           Effect    |-> stmts[i].Effect,
           Principal |-> IF stmts[i].Principal.t = "object"
                         THEN RangeOver(stmts[i].Principal.m, orders[i], "")
                         ELSE "",
           Action    |-> FirstString(stmts[i].Action, "")]]

\* A parser that skips the statements that have no principal.
ParseResourcePolicies_SkipIncomplete(policyJSON, orders) ==
    LET stmts == ListField(policyJSON, "Statement")
        kept  == SelectSeq(stmts, LAMBDA st : st.Principal.t # "null")
    IN [i \in 1..Len(kept) |->
          [Sid       |-> kept[i].Sid,
           Effect    |-> kept[i].Effect,
           Principal |-> FirstString(kept[i].Principal, ""),
           Action    |-> FirstString(kept[i].Action, "")]]

\* ParseResourcePolicies(policyJSON): one ResourcePolicy per statement.
ParseResourcePolicies(policyJSON, orders) ==
    LET stmts == ListField(policyJSON, "Statement")
    IN [i \in 1..Len(stmts) |->
          [Sid       |-> stmts[i].Sid,
           Effect    |-> stmts[i].Effect,
           Principal |-> IF stmts[i].Principal.t = "string" THEN stmts[i].Principal.s
                         ELSE IF stmts[i].Principal.t = "object"
                              THEN RangeOver(stmts[i].Principal.m, orders[i], "")
                              ELSE "",
           Action    |-> FirstString(stmts[i].Action, "")]]

(***************************************************************************)
(* SyncComputeData, continued: Lambda                                      *)
(***************************************************************************)

\* json.Unmarshal into a struct with one scalar field.
Field(data, key, zero) == IF data.key = key /\ Len(data.items) > 0 THEN data.items[1] ELSE zero

\* parseLambdaFunction(raw): the execution role's policies are resolved through
\* the Process Runner when the function has a role.
parseLambdaFunction(raw, w) ==
    LET roleName == LastSegment(raw.Role)
    IN IF raw.Role # <<>>
       THEN [fn |-> [FunctionName |-> raw.FunctionName, FunctionUrl |-> "", Policies |-> <<>>,
                     IamRole |-> roleName, IamPolicies |-> RolePolicies(roleName, w)],
             calls |-> <<"iam list-attached-role-policies", "iam list-role-policies">>]
       ELSE [fn |-> [FunctionName |-> raw.FunctionName, FunctionUrl |-> "", Policies |-> <<>>,
                     IamRole |-> "", IamPolicies |-> <<>>],
             calls |-> <<>>]

RoleArn == <<"arn:aws:iam::1:role", "exec-new">>
FunctionDocs ==
    {Obj("Functions", <<>>),
     Obj("Functions", <<[FunctionName |-> "fn-new", Role |-> <<>>]>>),
     Obj("Functions", <<[FunctionName |-> "fn-new", Role |-> RoleArn]>>)}
UrlDocs    == {Obj("FunctionUrl", <<"https://new.lambda-url">>)}
Statement1 == [Sid |-> "s1", Effect |-> "Allow", Principal |-> JStr("*"),
               Action |-> JStr("lambda:InvokeFunctionUrl")]
PolicyDocs == {Obj("Policy", <<Obj("Statement", <<Statement1>>)>>)}

\* What the Process Runner answers to the calls made for one function.
FunctionWorlds(raw) ==
    UNION {{[attached |-> a, inline |-> i, url |-> u, policy |-> p, orders |-> o] :
               a \in IF raw.Role = <<>> THEN {NotAsked} ELSE Aws(AttachedDocs),
               i \in IF raw.Role = <<>> THEN {NotAsked} ELSE Aws(InlineDocs),
               u \in Aws(UrlDocs),
               o \in IterationOrders(ListField(Field(p.stdout, "Policy", NilDoc), "Statement"))} :
           p \in Aws(PolicyDocs)}

\* The body of the loop over resp.Functions.
EnrichFunction(raw, w) ==
    LET fn  == parseLambdaFunction(raw, w).fn
        url == Run(<<"lambda", "get-function-url-config">>, w.url)
        pol == Run(<<"lambda", "get-policy">>, w.policy)
    IN [fn EXCEPT !.FunctionUrl = IF url.err = "" THEN Field(url.out, "FunctionUrl", "") ELSE @,
                  !.Policies    = IF pol.err = ""
                                  THEN ParseResourcePolicies(Field(pol.out, "Policy", NilDoc), w.orders)
                                  ELSE @]

\* return results, nil
ComputeReturn_ErrorWhenAllFail(res) ==
    [results |-> res,
     err |-> IF res # <<>> /\ \A i \in 1..Len(res) : res[i].Error # "" THEN "sync failed" ELSE ""]

ComputeReturn(res) == [results |-> res, err |-> ""]

\* Lambda, and the return.
SyncComputeLambda(aws, ws) ==
    LET r         == Run(<<"lambda", "list-functions">>, aws)
        raws      == ListField(r.out, "Functions")
        functions == [i \in 1..Len(raws) |-> EnrichFunction(raws[i], ws[i])]
        res       == IF r.err = "" THEN Append(results, SyncResult("lambda", Len(functions), ""))
                     ELSE Append(results, SyncResult("lambda", 0, r.err))
    IN /\ pc = At("SyncComputeData", 4)
       /\ cache' = IF r.err = "" THEN WriteCache(cache, Region \o ":lambda", Marshal(functions)).tbl
                   ELSE cache
       /\ results' = ComputeReturn(res).results
       /\ topErr' = ComputeReturn(res).err
       /\ fetched' = Remember("lambda.each", ws) @@ Remember("lambda", aws)
       /\ pc' = Returned("SyncComputeData")
       /\ UNCHANGED <<acc, prior, view, loadCalls>>

(***************************************************************************)
(* SyncStreamingData / LoadStreamingData: the streaming orchestrator       *)
(***************************************************************************)

\* strings.HasSuffix(name, suffix), over the names the model uses.
NameStems == {"jobs", "jobs.fifo", "jobs.FIFO", ""}
HasSuffix(name, suffix) == \E stem \in NameStems : name = stem \o suffix

\* a[key] on a map[string]string: "" when the key is absent.
Attr(attrs, key) == IF key \in DOMAIN attrs THEN attrs[key] ELSE ""

\* The documents of this category.  Attributes leave out CreatedTimestamp and
\* Policy, and streams carry no creation timestamp, so no time is formatted.
QueueUrl(name) == <<"https:", "", "sqs.us-east-1.amazonaws.com", "1", name>>
QueueDocs  == {Obj("QueueUrls", <<>>), Obj("QueueUrls", <<QueueUrl("jobs.fifo")>>)}
QueueAttrs == {Obj("Attributes", <<[QueueArn |-> "arn:aws:sqs:jobs.fifo"]>>)}
TopicArn   == <<"arn", "aws", "sns", "us-east-1", "1", "alerts">>
TopicDocs  == {Obj("Topics", <<>>), Obj("Topics", <<[TopicArn |-> TopicArn]>>)}
TopicAttrs == {Obj("Attributes", <<[DisplayName |-> "Alerts"]>>)}
SubDocs    == {Obj("Subscriptions", <<"sub-1", "sub-2">>)}
StreamDocs == {Obj("StreamSummaries", <<>>),
               Obj("StreamSummaries", <<[StreamName |-> "clicks", StreamStatus |-> "ACTIVE"]>>)}
StreamDesc == {Obj("StreamDescriptionSummary", <<[OpenShardCount |-> 2]>>)}
BusDocs    == {Obj("EventBuses", <<>>), Obj("EventBuses", <<[Name |-> "default"]>>)}
RuleDocs   == {Obj("Rules", <<[Name |-> "nightly", State |-> "ENABLED"]>>)}

\* One answer per element of a list: the per-element calls of a loop.
PerItem(items, answers) == [1..Len(items) -> answers]

\* A loop body that takes the flag from the FifoQueue attribute.
EnrichQueue_FifoFromAttribute(url, awsAttr) ==
    LET name == LastSegment(url)
        a    == Run(<<"sqs", "get-queue-attributes">>, awsAttr)
        at   == Field(a.out, "Attributes", <<>>)
    IN [QueueName |-> name, QueueUrl |-> url,
        IsFIFO |-> a.err = "" /\ Attr(at, "FifoQueue") = "true",
        Arn |-> IF a.err = "" THEN Attr(at, "QueueArn") ELSE ""]

\* The body of the loop over resp.QueueUrls.
EnrichQueue(url, awsAttr) ==
    LET name == LastSegment(url)
        a    == Run(<<"sqs", "get-queue-attributes">>, awsAttr)
        at   == Field(a.out, "Attributes", <<>>)
    IN [QueueName |-> name, QueueUrl |-> url, IsFIFO |-> HasSuffix(name, ".fifo"),
        Arn |-> IF a.err = "" THEN Attr(at, "QueueArn") ELSE ""]

\* The body of the loop over resp.Topics.
EnrichTopic(t, w) ==
    LET a == Run(<<"sns", "get-topic-attributes">>, w.attrs)
        b == Run(<<"sns", "list-subscriptions-by-topic">>, w.subs)
    IN [TopicArn |-> t.TopicArn, Name |-> LastSegment(t.TopicArn),
        DisplayName   |-> IF a.err = "" THEN Attr(Field(a.out, "Attributes", <<>>), "DisplayName") ELSE "",
        Subscriptions |-> IF b.err = "" THEN Len(ListField(b.out, "Subscriptions")) ELSE 0]

\* The body of the loop over resp.StreamSummaries.
EnrichStream(st, awsDesc) ==
    LET d == Run(<<"kinesis", "describe-stream-summary">>, awsDesc)
    IN [StreamName |-> st.StreamName, StreamStatus |-> st.StreamStatus,
        ShardCount |-> IF d.err = ""
                       THEN Field(d.out, "StreamDescriptionSummary", [OpenShardCount |-> 0]).OpenShardCount
                       ELSE 0]

\* The body of the loop over resp.EventBuses.
EnrichBus(b, awsRules) ==
    LET r == Run(<<"events", "list-rules">>, awsRules)
    IN [Name |-> b.Name, Rules |-> IF r.err = "" THEN ListField(r.out, "Rules") ELSE <<>>]

\* A StreamingData that starts from the struct cached by the previous run.
EmptyStreamingData_FromCache ==
    IF Region \o ":streaming-enriched" \in DOMAIN cache
    THEN [SQS         |-> cache[Region \o ":streaming-enriched"].value.sqs.items,
          SNS         |-> cache[Region \o ":streaming-enriched"].value.sns.items,
          Kinesis     |-> cache[Region \o ":streaming-enriched"].value.kinesis.items,
          EventBridge |-> cache[Region \o ":streaming-enriched"].value.eventbridge.items]
    ELSE [SQS |-> <<>>, SNS |-> <<>>, Kinesis |-> <<>>, EventBridge |-> <<>>]

\* data := &StreamingData{}
EmptyStreamingData == [SQS |-> <<>>, SNS |-> <<>>, Kinesis |-> <<>>, EventBridge |-> <<>>]

\* One block of an orchestrator that builds an enriched struct: the list call,
\* the raw write, the per-element enrichment appended to data, the result entry.
ListBlock(fn, step, service, key, args, listKey, field, aws, enriched) ==
    LET r == Run(args, aws)
    IN /\ pc = At(fn, step)
       /\ IF r.err = ""
          THEN /\ cache' = WriteCache(cache, key, r.out).tbl
               /\ acc' = [acc EXCEPT ![field] = @ \o enriched]
               /\ results' = Append(results, SyncResult(service, Len(ListField(r.out, listKey)), ""))
          ELSE /\ results' = Append(results, SyncResult(service, 0, r.err))
               /\ UNCHANGED <<cache, acc>>
       /\ fetched' = Remember(service, aws)
       /\ pc' = At(fn, step + 1)
       /\ UNCHANGED <<topErr, prior, view, loadCalls>>

StreamingBlock(step, service, args, listKey, field, aws, enriched) ==
    ListBlock("SyncStreamingData", step, service, Region \o ":" \o service, args, listKey, field,
              aws, enriched)

SyncStreamingSQS(aws, ws) ==
    LET urls == ListField(aws.stdout, "QueueUrls")
    IN StreamingBlock(1, "sqs", <<"sqs", "list-queues">>, "QueueUrls", "SQS", aws,
                      [i \in 1..Len(urls) |-> EnrichQueue(urls[i], ws[i])])

SyncStreamingSNS(aws, ws) ==
    LET topics == ListField(aws.stdout, "Topics")
    IN StreamingBlock(2, "sns", <<"sns", "list-topics">>, "Topics", "SNS", aws,
                      [i \in 1..Len(topics) |-> EnrichTopic(topics[i], ws[i])])

SyncStreamingKinesis(aws, ws) ==
    LET streams == ListField(aws.stdout, "StreamSummaries")
    IN StreamingBlock(3, "kinesis", <<"kinesis", "list-streams">>, "StreamSummaries", "Kinesis", aws,
                      [i \in 1..Len(streams) |-> EnrichStream(streams[i], ws[i])])

SyncStreamingEventBridge(aws, ws) ==
    LET buses == ListField(aws.stdout, "EventBuses")
    IN StreamingBlock(4, "eventbridge", <<"events", "list-event-buses">>, "EventBuses", "EventBridge",
                      aws, [i \in 1..Len(buses) |-> EnrichBus(buses[i], ws[i])])

\* json.Marshal(data) of the StreamingData struct.
MarshalStreaming(data) ==
    [sqs |-> Marshal(data.SQS), sns |-> Marshal(data.SNS), kinesis |-> Marshal(data.Kinesis),
     eventbridge |-> Marshal(data.EventBridge)]
UnmarshalStreaming(blob) ==
    [SQS |-> Unmarshal(blob.sqs), SNS |-> Unmarshal(blob.sns), Kinesis |-> Unmarshal(blob.kinesis),
     EventBridge |-> Unmarshal(blob.eventbridge)]

\* Cache enriched data, and return results, nil.
SyncStreamingWrite ==
    /\ pc = At("SyncStreamingData", 5)
    /\ cache' = WriteCache(cache, Region \o ":streaming-enriched", MarshalStreaming(acc)).tbl
    /\ pc' = Returned("SyncStreamingData")
    /\ topErr' = ""
    /\ UNCHANGED <<results, acc, prior, fetched, view, loadCalls>>

(***************************************************************************)
(* SyncIAMData / LoadIAMData: internal/sync/iam.go                         *)
(***************************************************************************)

\* formatIAMDate(s): an RFC 3339 time is reformatted, anything else is kept.
formatIAMDate(str) ==
    IF str = "2024-05-01T10:00:00Z" THEN "2024-05-01 10:00" ELSE str

\* strings.HasPrefix(r.Path, "/aws-service-role/"), over the paths the model uses.
PathRests == {"", "ecs.amazonaws.com/"}
HasPrefix(str, prefix) == \E rest \in PathRests : str = prefix \o rest

TrustStatement == [Sid |-> "", Effect |-> "Allow",
                   Principal |-> JMap(<<[k |-> "Service", v |-> JStr("ec2.amazonaws.com")]>>),
                   Action |-> JStr("sts:AssumeRole")]
RoleDocs  == {Obj("Roles", <<>>),
              Obj("Roles", <<[RoleName |-> "role-new", Path |-> "/",
                              CreateDate |-> "2024-05-01T10:00:00Z",
                              AssumeRolePolicyDocument |-> Obj("Statement", <<TrustStatement>>)]>>)}
GroupDocs == {Obj("Groups", <<>>), Obj("Groups", <<[GroupName |-> "devs", CreateDate |-> "yesterday"]>>)}
UserDocs  == {Obj("Users", <<[UserName |-> "ana"]>>)}

RoleWorlds(raw) ==
    {[attached |-> a, inline |-> i, orders |-> o] :
        a \in Aws(AttachedDocs), i \in Aws(InlineDocs),
        o \in IterationOrders(ListField(raw.AssumeRolePolicyDocument, "Statement"))}
GroupWorlds ==
    {[attached |-> a, inline |-> i, members |-> m] :
        a \in Aws(AttachedDocs), i \in Aws(InlineDocs), m \in Aws(UserDocs)}

\* The elements of a list, each with one of the worlds it admits.
WorldsOf(raws, worlds(_)) ==
    {ws \in [1..Len(raws) -> UNION {worlds(raws[i]) : i \in 1..Len(raws)}] :
        \A i \in 1..Len(raws) : ws[i] \in worlds(raws[i])}

\* The body of the loop over resp.Roles.
EnrichRole(r, w) ==
    LET a == Run(<<"iam", "list-attached-role-policies">>, w.attached)
        i == Run(<<"iam", "list-role-policies">>, w.inline)
    IN [RoleName         |-> r.RoleName,
        CreateDate       |-> formatIAMDate(r.CreateDate),
        IsServiceLinked  |-> HasPrefix(r.Path, "/aws-service-role/"),
        TrustPolicy      |-> ParseResourcePolicies(r.AssumeRolePolicyDocument, w.orders),
        AttachedPolicies |-> IF a.err = "" THEN PolicyNamesOf(ListField(a.out, "AttachedPolicies"))
                             ELSE <<>>,
        InlinePolicies   |-> IF i.err = "" THEN ListField(i.out, "PolicyNames") ELSE <<>>]

UserNamesOf(users) == [i \in 1..Len(users) |-> users[i].UserName]

\* The body of the loop over resp.Groups.
EnrichGroup(g, w) ==
    LET a == Run(<<"iam", "list-attached-group-policies">>, w.attached)
        i == Run(<<"iam", "list-group-policies">>, w.inline)
        m == Run(<<"iam", "get-group">>, w.members)
    IN [GroupName        |-> g.GroupName,
        CreateDate       |-> formatIAMDate(g.CreateDate),
        AttachedPolicies |-> IF a.err = "" THEN PolicyNamesOf(ListField(a.out, "AttachedPolicies"))
                             ELSE <<>>,
        InlinePolicies   |-> IF i.err = "" THEN ListField(i.out, "PolicyNames") ELSE <<>>,
        Members          |-> IF m.err = "" THEN UserNamesOf(ListField(m.out, "Users")) ELSE <<>>]

\* data := &IAMData{}
EmptyIAMData == [Roles |-> <<>>, Groups |-> <<>>]

\* Sync roles
SyncIAMRoles(aws, ws) ==
    LET roles == ListField(aws.stdout, "Roles")
    IN ListBlock("SyncIAMData", 1, "iam-roles", "iam:roles", <<"iam", "list-roles">>, "Roles", "Roles",
                 aws, [i \in 1..Len(roles) |-> EnrichRole(roles[i], ws[i])])

\* Sync groups
SyncIAMGroups(aws, ws) ==
    LET groups == ListField(aws.stdout, "Groups")
    IN ListBlock("SyncIAMData", 2, "iam-groups", "iam:groups", <<"iam", "list-groups">>, "Groups",
                 "Groups", aws, [i \in 1..Len(groups) |-> EnrichGroup(groups[i], ws[i])])

\* json.Marshal(data) of the IAMData struct.
MarshalIAM(data)   == [roles |-> Marshal(data.Roles), groups |-> Marshal(data.Groups)]
UnmarshalIAM(blob) == [Roles |-> Unmarshal(blob.roles), Groups |-> Unmarshal(blob.groups)]

\* Cache enriched data, and return results, nil.
SyncIAMWrite ==
    /\ pc = At("SyncIAMData", 3)
    /\ cache' = WriteCache(cache, "iam:enriched", MarshalIAM(acc)).tbl
    /\ pc' = Returned("SyncIAMData")
    /\ topErr' = ""
    /\ UNCHANGED <<results, acc, prior, fetched, view, loadCalls>>

(***************************************************************************)
(* SyncAIData: five sub-resources cached as printed                        *)
(***************************************************************************)

AIJobs == <<
    [name |-> "sagemaker-notebooks", args |-> <<"sagemaker", "list-notebook-instances">>, countKey |-> "NotebookInstances"],
    [name |-> "sagemaker-endpoints", args |-> <<"sagemaker", "list-endpoints">>,          countKey |-> "Endpoints"],
    [name |-> "sagemaker-models",    args |-> <<"sagemaker", "list-models">>,             countKey |-> "Models"],
    [name |-> "bedrock-models",      args |-> <<"bedrock", "list-foundation-models">>,    countKey |-> "modelSummaries"],
    [name |-> "bedrock-custom",      args |-> <<"bedrock", "list-custom-models">>,        countKey |-> "modelSummaries"] >>

\* What the account may hold for sub-resource i of the AI category.
AIDocs(i) ==
    IF AIJobs[i].name = "sagemaker-endpoints"
    THEN {EmptyObj, Obj("Endpoints", <<[EndpointName |-> "ep-new", EndpointStatus |-> "InService"]>>)}
    ELSE {EmptyObj, Obj(AIJobs[i].countKey, <<[Name |-> "new"]>>)}

\* One of the five blocks; step(label) calls the caller's progress callback,
\* which touches none of the state modelled here.
SyncAIJob(i, aws) == SyncRawJob("SyncAIData", i, AIJobs[i], aws)

\* return results, nil
SyncAIReturn ==
    /\ pc = At("SyncAIData", Len(AIJobs) + 1)
    /\ pc' = Returned("SyncAIData")
    /\ topErr' = ""
    /\ UNCHANGED <<cache, results, acc, prior, fetched, view, loadCalls>>

(***************************************************************************)
(* SyncDatabaseData and its parsers: internal/sync/compute.go              *)
(***************************************************************************)

RDSJob == [name |-> "rds", args |-> <<"rds", "describe-db-instances">>, countKey |-> "DBInstances"]
RDSDocs == {EmptyObj, Obj("DBInstances", <<[DBInstanceIdentifier |-> "db-new", Engine |-> "postgres"]>>)}

\* RDS
SyncDatabaseRDS(aws) == SyncRawJob("SyncDatabaseData", 2, RDSJob, aws)

\* parseDynamoDBTable(raw): the Table object of a describe-table answer.
parseDynamoDBTable(raw) ==
    LET t == Field(raw, "Table", [TableName |-> "", TableStatus |-> ""])
    IN [TableName |-> t.TableName, Status |-> t.TableStatus]

TableNameDocs == {Obj("TableNames", <<>>), Obj("TableNames", <<"orders">>)}
TableDocs     == {Obj("Table", <<[TableName |-> "orders", TableStatus |-> "ACTIVE"]>>)}

RECURSIVE DescribedTables(_)
\* The tables whose describe-table call succeeded, in list order.
DescribedTables(ws) ==
    IF ws = <<>> THEN <<>>
    ELSE LET t == Run(<<"dynamodb", "describe-table">>, Head(ws))
         IN (IF t.err = "" THEN <<parseDynamoDBTable(t.out)>> ELSE <<>>) \o DescribedTables(Tail(ws))

\* DynamoDB - list then describe each
SyncDatabaseDynamoDB(aws, ws) ==
    LET r      == Run(<<"dynamodb", "list-tables">>, aws)
        tables == DescribedTables(ws)
    IN /\ pc = At("SyncDatabaseData", 3)
       /\ IF r.err = ""
          THEN /\ cache' = WriteCache(cache, Region \o ":dynamodb", Marshal(tables)).tbl
               /\ results' = Append(results, SyncResult("dynamodb", Len(tables), ""))
          ELSE /\ results' = Append(results, SyncResult("dynamodb", 0, r.err))
               /\ cache' = cache
       /\ fetched' = Remember("dynamodb.each", ws) @@ Remember("dynamodb", aws)
       /\ pc' = At("SyncDatabaseData", 4)
       /\ UNCHANGED <<topErr, acc, prior, view, loadCalls>>

\* parseElastiCache(raw, region): the VPC is looked up from the subnet group
\* through the Process Runner.
parseElastiCache(raw, awsSubnet) ==
    LET g      == Run(<<"elasticache", "describe-cache-subnet-groups">>, awsSubnet)
        groups == ListField(g.out, "CacheSubnetGroups")
    IN [c |-> [CacheClusterId  |-> raw.CacheClusterId,
               SubnetGroupName |-> raw.CacheSubnetGroupName,
               VpcId |-> IF raw.CacheSubnetGroupName # "" /\ g.err = "" /\ Len(groups) > 0
                         THEN groups[1].VpcId ELSE ""],
        calls |-> IF raw.CacheSubnetGroupName # ""
                  THEN <<"elasticache describe-cache-subnet-groups">> ELSE <<>>]

CacheClusterDocs == {Obj("CacheClusters", <<>>),
                     Obj("CacheClusters", <<[CacheClusterId |-> "cache-new",
                                             CacheSubnetGroupName |-> "private"]>>)}
SubnetGroupDocs  == {Obj("CacheSubnetGroups", <<[VpcId |-> "vpc-1"]>>)}
SubnetWorlds(raw) == IF raw.CacheSubnetGroupName = "" THEN {NotAsked} ELSE Aws(SubnetGroupDocs)

\* ElastiCache - fetch and enrich with VPC info, and the return.
SyncDatabaseElastiCache(aws, ws) ==
    LET r        == Run(<<"elasticache", "describe-cache-clusters">>, aws)
        raws     == ListField(r.out, "CacheClusters")
        clusters == [i \in 1..Len(raws) |-> parseElastiCache(raws[i], ws[i]).c]
    IN /\ pc = At("SyncDatabaseData", 4)
       /\ IF r.err = ""
          THEN /\ cache' = WriteCache(cache, Region \o ":elasticache-enriched", Marshal(clusters)).tbl
               /\ results' = Append(results, SyncResult("elasticache", Len(clusters), ""))
          ELSE /\ results' = Append(results, SyncResult("elasticache", 0, r.err))
               /\ cache' = cache
       /\ fetched' = Remember("elasticache.each", ws) @@ Remember("elasticache", aws)
       /\ pc' = Returned("SyncDatabaseData")
       /\ topErr' = ""
       /\ UNCHANGED <<acc, prior, view, loadCalls>>

(***************************************************************************)
(* SyncDataWarehouseData                                                   *)
(***************************************************************************)

RedshiftJob  == [name |-> "redshift", args |-> <<"redshift", "describe-clusters">>, countKey |-> "Clusters"]
RedshiftDocs == {EmptyObj, Obj("Clusters", <<[ClusterIdentifier |-> "dw-new"]>>)}
WorkGroupDocs == {Obj("WorkGroups", <<>>), Obj("WorkGroups", <<[Name |-> "primary", State |-> "ENABLED"]>>)}
GlueDocs      == {Obj("DatabaseList", <<>>), Obj("DatabaseList", <<[Name |-> "lake", CatalogId |-> "1"]>>)}

\* Redshift
SyncWarehouseRedshift(aws) == SyncRawJob("SyncDataWarehouseData", 2, RedshiftJob, aws)

parseAthenaWorkgroup(raw) == [Name |-> raw.Name, State |-> raw.State]
parseGlueDatabase(raw)    == [Name |-> raw.Name, CatalogId |-> raw.CatalogId]

\* A sub-resource cached as the list of its parsed elements.
SyncParsedList(fn, step, service, args, listKey, parse(_), aws, next) ==
    LET r      == Run(args, aws)
        parsed == ParseAll(ListField(r.out, listKey), parse)
    IN /\ pc = At(fn, step)
       /\ IF r.err = ""
          THEN /\ cache' = WriteCache(cache, Region \o ":" \o service, Marshal(parsed)).tbl
               /\ results' = Append(results, SyncResult(service, Len(parsed), ""))
          ELSE /\ results' = Append(results, SyncResult(service, 0, r.err))
               /\ cache' = cache
       /\ fetched' = Remember(service, aws)
       /\ pc' = next
       /\ UNCHANGED <<acc, prior, view, loadCalls>>

\* Athena - list workgroups then get details
SyncWarehouseAthena(aws) ==
    /\ SyncParsedList("SyncDataWarehouseData", 3, "athena", <<"athena", "list-work-groups">>,
                      "WorkGroups", parseAthenaWorkgroup, aws, At("SyncDataWarehouseData", 4))
    /\ UNCHANGED topErr

\* Glue databases, and the return.
SyncWarehouseGlue(aws) ==
    /\ SyncParsedList("SyncDataWarehouseData", 4, "glue", <<"glue", "get-databases">>,
                      "DatabaseList", parseGlueDatabase, aws, Returned("SyncDataWarehouseData"))
    /\ topErr' = ""

(***************************************************************************)
(* S3: syncService (internal/sync/syncer.go), SyncS3WithRegions and the S3 *)
(* loaders (internal/sync/compute.go)                                      *)
(***************************************************************************)

\* parseS3Bucket(raw); the creation date is reformatted like formatIAMDate.
parseS3Bucket(raw) ==
    [Name |-> raw.Name, CreationDate |-> formatIAMDate(raw.CreationDate), Region |-> "",
     Access |-> "unknown", Versioning |-> "Unknown", PublicAccessBlock |-> <<>>,
     PolicyPublic |-> FALSE, ACLPublic |-> FALSE]

\* LoadS3Data(): the buckets of the raw list under key "s3".
LoadS3Data(tbl) ==
    LET raw == ReadCache(tbl, "s3")
    IN IF raw.err # "" \/ raw.raw = <<>>
       THEN [data |-> [Buckets |-> <<>>], err |-> raw.err]
       ELSE [data |-> [Buckets |-> ParseAll(ListField(raw.raw[1], "Buckets"), parseS3Bucket)],
             err  |-> ""]

\* A classifier that tests the policy and ACL flags first.
determineAccess_PublicFirst(b) ==
    IF b.PolicyPublic \/ b.ACLPublic THEN "public"
    ELSE IF b.PublicAccessBlock # <<>> THEN "private"
    ELSE "unknown"

\* determineAccess(b)
determineAccess(b) ==
    LET AllOn(pab) == /\ pab.BlockPublicAcls /\ pab.IgnorePublicAcls
                      /\ pab.BlockPublicPolicy /\ pab.RestrictPublicBuckets
    IN IF b.PublicAccessBlock # <<>> /\ AllOn(b.PublicAccessBlock[1]) THEN "private"
       ELSE IF b.PolicyPublic \/ b.ACLPublic THEN "public"
       ELSE IF b.PublicAccessBlock # <<>> THEN "private"
       ELSE "unknown"

AllUsers   == "http://acs.amazonaws.com/groups/global/AllUsers"
AuthUsers  == "http://acs.amazonaws.com/groups/global/AuthenticatedUsers"
BucketDocs == {Obj("Buckets", <<>>),
               Obj("Buckets", <<[Name |-> "logs-new", CreationDate |-> "2024-05-01T10:00:00Z"]>>),
               Obj("Buckets", <<[Name |-> "logs-new", CreationDate |-> "2024-05-01T10:00:00Z"],
                                [Name |-> "assets-new", CreationDate |-> "2024-06-01T10:00:00Z"]>>)}
LocationDocs   == {Obj("LocationConstraint", <<>>), Obj("LocationConstraint", <<"eu-west-1">>)}
PABDocs        == {Obj("PublicAccessBlockConfiguration",
                       <<[BlockPublicAcls |-> TRUE, IgnorePublicAcls |-> TRUE,
                          BlockPublicPolicy |-> FALSE, RestrictPublicBuckets |-> TRUE]>>)}
PolicyStatusDocs == {Obj("PolicyStatus", <<[IsPublic |-> TRUE]>>)}
ACLDocs        == {Obj("Grants", <<[Grantee |-> [URI |-> AuthUsers]]>>)}
VersioningDocs == {Obj("Status", <<"Enabled">>)}
BucketWorlds ==
    {[location |-> l, pab |-> b, policy |-> p, acl |-> a, versioning |-> v] :
        l \in Aws(LocationDocs), b \in Aws(PABDocs), p \in Aws(PolicyStatusDocs),
        a \in Aws(ACLDocs), v \in Aws(VersioningDocs)}

\* The answers to the calls of a bucket list: every combination for the first
\* bucket; for the buckets after it, all five calls fail or all five succeed.
BucketAnswers(buckets) ==
    {ws \in PerItem(buckets, BucketWorlds) :
        \A i \in 2..Len(buckets) :
            \/ \A call \in DOMAIN ws[i] : ws[i][call] = AwsFails
            \/ /\ \A call \in DOMAIN ws[i] : ws[i][call].exit = 0
               /\ ws[i].location.stdout = Obj("LocationConstraint", <<"eu-west-1">>)}

\* The body of the loop over s3Data.Buckets: five calls, each skipped silently
\* when it fails, then the overall access.
EnrichBucket(bucket, w) ==
    LET loc == Run(<<"s3api", "get-bucket-location">>, w.location)
        pab == Run(<<"s3api", "get-public-access-block">>, w.pab)
        pol == Run(<<"s3api", "get-bucket-policy-status">>, w.policy)
        acl == Run(<<"s3api", "get-bucket-acl">>, w.acl)
        ver == Run(<<"s3api", "get-bucket-versioning">>, w.versioning)
        zeroPAB == [BlockPublicAcls |-> FALSE, IgnorePublicAcls |-> FALSE,
                    BlockPublicPolicy |-> FALSE, RestrictPublicBuckets |-> FALSE]
        grants  == ListField(acl.out, "Grants")
        b == [bucket EXCEPT
                !.Region = IF loc.err # "" THEN @
                           ELSE IF Field(loc.out, "LocationConstraint", "") = "" THEN "us-east-1"
                           ELSE Field(loc.out, "LocationConstraint", ""),
                !.PublicAccessBlock = IF pab.err # "" THEN @
                           ELSE <<Field(pab.out, "PublicAccessBlockConfiguration", zeroPAB)>>,
                !.PolicyPublic = IF pol.err # "" THEN @
                           ELSE Field(pol.out, "PolicyStatus", [IsPublic |-> FALSE]).IsPublic,
                !.ACLPublic = IF acl.err # "" THEN @
                           ELSE \E i \in 1..Len(grants) : grants[i].Grantee.URI \in {AllUsers, AuthUsers},
                !.Versioning = IF ver.err # "" THEN @
                           ELSE IF Field(ver.out, "Status", "") = "" THEN "Disabled"
                           ELSE Field(ver.out, "Status", "")]
    IN [b EXCEPT !.Access = determineAccess(b)]

\* A syncService that drops the error of WriteCache.
syncService_IgnoreWriteError(tbl, name, args, countField, aws) ==
    LET r == Run(args, aws)
        w == WriteCache(tbl, name, r.out)
    IN IF r.err # "" THEN [tbl |-> tbl, result |-> <<>>, err |-> r.err]
       ELSE [tbl |-> w.tbl, result |-> <<SyncResult(name, countKey(r.out, countField), "")>>,
             err |-> ""]

\* syncService(name, args, countField): the error of Run or of WriteCache is
\* returned; otherwise the result with the count.
syncService(tbl, name, args, countField, aws) ==
    LET r == Run(args, aws)
        w == WriteCache(tbl, name, r.out)
    IN IF r.err # "" THEN [tbl |-> tbl, result |-> <<>>, err |-> r.err]
       ELSE IF w.err # "" THEN [tbl |-> w.tbl, result |-> <<>>, err |-> w.err]
       ELSE [tbl |-> w.tbl, result |-> <<SyncResult(name, countKey(r.out, countField), "")>>,
             err |-> ""]

\* json.Marshal(s3Data) of the S3Data struct.
MarshalS3(data)   == [buckets |-> Marshal(data.Buckets)]
UnmarshalS3(blob) == [Buckets |-> Unmarshal(blob.buckets)]

\* SyncS3WithRegions(): syncS3, then the details of every bucket of the list
\* just cached, then the write of "s3:enriched".
SyncS3WithRegions(aws, ws) ==
    LET listed  == syncService(cache, "s3", <<"s3api", "list-buckets">>, "Buckets", aws)
        buckets == LoadS3Data(listed.tbl).data.Buckets
        s3Data  == [Buckets |-> [i \in 1..Len(buckets) |-> EnrichBucket(buckets[i], ws[i])]]
    IN /\ pc = At("SyncS3WithRegions", 1)
       /\ IF listed.err # ""
          THEN /\ cache' = listed.tbl
               /\ results' = <<>>
               /\ topErr' = listed.err
          ELSE /\ cache' = WriteCache(listed.tbl, "s3:enriched", MarshalS3(s3Data)).tbl
               /\ results' = listed.result
               /\ topErr' = ""
       /\ fetched' = Remember("s3.each", IF listed.err # "" THEN <<>>
                                          ELSE [i \in 1..Len(buckets) |-> ws[i]])
                      @@ Remember("s3", aws)
       /\ pc' = Returned("SyncS3WithRegions")
       /\ UNCHANGED <<acc, prior, view, loadCalls>>

\* LoadS3DataEnriched(): the enriched buckets, or LoadS3Data() when the enriched
\* entry is missing or lists no bucket.
LoadS3DataEnriched(tbl) ==
    LET raw == ReadCache(tbl, "s3:enriched")
    IN IF raw.err # "" \/ raw.raw = <<>> THEN LoadS3Data(tbl)
       ELSE IF Len(UnmarshalS3(raw.raw[1]).Buckets) = 0 THEN LoadS3Data(tbl)
       ELSE [data |-> UnmarshalS3(raw.raw[1]), err |-> ""]

(***************************************************************************)
(* The read-side loaders                                                   *)
(***************************************************************************)

\* if raw, err := ReadCache(key); err == nil && raw != nil { ... }
Cached(tbl, key) == ReadCache(tbl, key).err = "" /\ ReadCache(tbl, key).raw # <<>>
Blob(tbl, key)   == ReadCache(tbl, key).raw[1]

\* The elements of the list cached as printed under key, or none.
RawList(tbl, key, listKey) == IF Cached(tbl, key) THEN ListField(Blob(tbl, key), listKey) ELSE <<>>

\* The slice cached as a marshalled array under key, or nil.
CachedSlice(tbl, key) == IF Cached(tbl, key) THEN Unmarshal(Blob(tbl, key)) ELSE <<>>

\* LoadVPCData(region): six raw keys; parseVPC, parseSubnet, ... copy fields
\* of each element and call nothing.
LoadVPCData(tbl) ==
    [data  |-> <<[k \in {VPCJobs[i].name : i \in 1..Len(VPCJobs)} |->
                    LET i == CHOOSE i \in 1..Len(VPCJobs) : VPCJobs[i].name = k
                    IN RawList(tbl, Region \o ":" \o k, VPCJobs[i].countKey)]>>,
     err   |-> "",
     calls |-> <<>>]

\* LoadComputeData(region): EC2 from the enriched key, else rebuilt from the raw
\* key with parseEC2Instance; ECS from the enriched key only; Lambda.
LoadComputeData(tbl, ws) ==
    LET enriched == Cached(tbl, Region \o ":ec2-enriched")
        raws     == IF enriched THEN <<>>
                    ELSE Flatten(RawList(tbl, Region \o ":ec2", "Reservations"))
        parsed   == [i \in 1..Len(raws) |-> parseEC2Instance(raws[i], ws[i])]
    IN [data  |-> <<[EC2    |-> IF enriched THEN Unmarshal(Blob(tbl, Region \o ":ec2-enriched"))
                                ELSE [i \in 1..Len(raws) |-> parsed[i].inst],
                     ECS    |-> CachedSlice(tbl, Region \o ":ecs-enriched"),
                     Lambda |-> CachedSlice(tbl, Region \o ":lambda")]>>,
        err   |-> "",
        calls |-> Concat([i \in 1..Len(raws) |-> parsed[i].calls])]

\* The raw instances LoadComputeData would parse, for choosing their worlds.
FallbackInstances(tbl) ==
    IF Cached(tbl, Region \o ":ec2-enriched") THEN <<>>
    ELSE Flatten(RawList(tbl, Region \o ":ec2", "Reservations"))

\* parseRDSInstance(raw)
parseRDSInstance(raw) == [DBInstanceId |-> raw.DBInstanceIdentifier, Engine |-> raw.Engine]

\* LoadDatabaseData(region): ElastiCache from the enriched key only.
LoadDatabaseData(tbl) ==
    [data  |-> <<[RDS         |-> ParseAll(RawList(tbl, Region \o ":rds", "DBInstances"), parseRDSInstance),
                  DynamoDB    |-> CachedSlice(tbl, Region \o ":dynamodb"),
                  ElastiCache |-> CachedSlice(tbl, Region \o ":elasticache-enriched")]>>,
     err   |-> "",
     calls |-> <<>>]

\* parseSageMakerEndpoint(raw, region): the model behind the endpoint is looked
\* up through the Process Runner: describe-endpoint, then
\* describe-endpoint-config when a config name came back.
parseSageMakerEndpoint(raw, w) ==
    LET d        == Run(<<"sagemaker", "describe-endpoint">>, w.describe)
        cfgName  == Field(d.out, "EndpointConfigName", "")
        c        == Run(<<"sagemaker", "describe-endpoint-config">>, w.config)
        variants == ListField(c.out, "ProductionVariants")
        asked    == d.err = "" /\ cfgName # ""
    IN [ep    |-> [Name |-> raw.EndpointName, Status |-> raw.EndpointStatus,
                   ModelName |-> IF asked /\ c.err = "" /\ Len(variants) > 0
                                 THEN variants[1].ModelName ELSE ""],
        calls |-> <<"sagemaker describe-endpoint">>
                  \o (IF asked THEN <<"sagemaker describe-endpoint-config">> ELSE <<>>)]

EndpointDescDocs == {Obj("EndpointConfigName", <<"cfg-1">>)}
EndpointCfgDocs  == {Obj("ProductionVariants", <<[ModelName |-> "model-now"]>>)}
EndpointWorlds(raw) ==
    {[describe |-> AwsFails, config |-> NotAsked]}
    \cup {[describe |-> d, config |-> c] : d \in {AwsPrints(x) : x \in EndpointDescDocs},
                                           c \in Aws(EndpointCfgDocs)}

\* LoadAIData(region): five raw keys; every cached endpoint goes through
\* parseSageMakerEndpoint.
LoadAIData(tbl, ws) ==
    LET raws   == RawList(tbl, Region \o ":sagemaker-endpoints", "Endpoints")
        parsed == [i \in 1..Len(raws) |-> parseSageMakerEndpoint(raws[i], ws[i])]
    IN [data  |-> <<[SageMakerNotebooks |-> RawList(tbl, Region \o ":sagemaker-notebooks", "NotebookInstances"),
                     SageMakerEndpoints |-> [i \in 1..Len(raws) |-> parsed[i].ep],
                     SageMakerModels    |-> RawList(tbl, Region \o ":sagemaker-models", "Models"),
                     BedrockModels      |-> RawList(tbl, Region \o ":bedrock-models", "modelSummaries"),
                     BedrockCustom      |-> RawList(tbl, Region \o ":bedrock-custom", "modelSummaries")]>>,
        err   |-> "",
        calls |-> Concat([i \in 1..Len(raws) |-> parsed[i].calls])]

\* LoadIAMData(): nil when "iam:enriched" is missing.
LoadIAMData(tbl) ==
    LET raw == ReadCache(tbl, "iam:enriched")
    IN IF raw.err # "" \/ raw.raw = <<>> THEN [data |-> <<>>, err |-> raw.err, calls |-> <<>>]
       ELSE [data |-> <<UnmarshalIAM(raw.raw[1])>>, err |-> "", calls |-> <<>>]

\* LoadStreamingData(region): nil when the enriched key is missing.
LoadStreamingData(tbl) ==
    LET raw == ReadCache(tbl, Region \o ":streaming-enriched")
    IN IF raw.err # "" \/ raw.raw = <<>> THEN [data |-> <<>>, err |-> raw.err, calls |-> <<>>]
       ELSE [data |-> <<UnmarshalStreaming(raw.raw[1])>>, err |-> "", calls |-> <<>>]

\* The value a handler gets from LoadS3DataEnriched().
LoadS3View(tbl) ==
    [data |-> <<LoadS3DataEnriched(tbl).data>>, err |-> LoadS3DataEnriched(tbl).err, calls |-> <<>>]

(***************************************************************************)
(* The caches a run can start from                                         *)
(***************************************************************************)

\* A table from <<key, blob>> pairs, every row written at time 0.
TableOf(pairs) ==
    [k \in {pairs[i][1] : i \in DOMAIN pairs} |->
        Row(pairs[CHOOSE i \in DOMAIN pairs : pairs[i][1] = k][2], 0)]

OldPolicies == <<[Sid |-> "s0", Effect |-> "Allow", Principal |-> "*", Action |-> "old:Action"]>>
OldInstance == [InstanceId |-> "i-old", IamInstanceProfile |-> ProfileArn]
OldBucket   == [Name |-> "logs-old", CreationDate |-> "2020-01-01T00:00:00Z"]
OldEndpoint == [EndpointName |-> "ep-old", EndpointStatus |-> "InService"]

\* The keys written as the CLI printed the list.
OldRaw ==
    [i \in 1..Len(VPCJobs) |-> <<Region \o ":" \o VPCJobs[i].name, Obj(VPCJobs[i].countKey, <<"old">>)>>]
    \o [i \in 1..Len(AIJobs) |->
          <<Region \o ":" \o AIJobs[i].name,
            Obj(AIJobs[i].countKey, <<IF AIJobs[i].name = "sagemaker-endpoints" THEN OldEndpoint
                                      ELSE [Name |-> "old"]>>)>>]
    \o << <<Region \o ":ec2", Obj("Reservations", <<[Instances |-> <<OldInstance>>]>>)>>,
          <<Region \o ":rds", Obj("DBInstances", <<[DBInstanceIdentifier |-> "db-old", Engine |-> "mysql"]>>)>>,
          <<Region \o ":redshift", Obj("Clusters", <<[ClusterIdentifier |-> "dw-old"]>>)>>,
          <<Region \o ":sqs", Obj("QueueUrls", <<QueueUrl("jobs")>>)>>,
          <<Region \o ":sns", Obj("Topics", <<[TopicArn |-> TopicArn]>>)>>,
          <<Region \o ":kinesis", Obj("StreamSummaries", <<[StreamName |-> "old", StreamStatus |-> "ACTIVE"]>>)>>,
          <<Region \o ":eventbridge", Obj("EventBuses", <<[Name |-> "old"]>>)>>,
          <<"iam:roles", Obj("Roles", <<[RoleName |-> "role-old", Path |-> "/", CreateDate |-> "",
                                         AssumeRolePolicyDocument |-> NilDoc]>>)>>,
          <<"iam:groups", Obj("Groups", <<[GroupName |-> "old", CreateDate |-> ""]>>)>>,
          <<"s3", Obj("Buckets", <<OldBucket>>)>> >>

\* The keys holding a list or struct the orchestrator built.
OldBuilt ==
    << <<Region \o ":load-balancers", Marshal(<<[Name |-> "old", VpcId |-> "vpc-0"]>>)>>,
       <<Region \o ":target-groups", Marshal(<<[Name |-> "old", VpcId |-> "vpc-0"]>>)>>,
       <<Region \o ":ec2-enriched",
         Marshal(<<[InstanceId |-> "i-old", IamRole |-> "role-old", IamPolicies |-> <<"Admin">>]>>)>>,
       <<Region \o ":ecs-enriched",
         Marshal(<<[ClusterName |-> "c-old", ClusterArn |-> "arn:aws:ecs:cluster/c0", Status |-> "ACTIVE"]>>)>>,
       <<Region \o ":lambda",
         Marshal(<<[FunctionName |-> "fn-old", FunctionUrl |-> "https://old.lambda-url",
                    Policies |-> OldPolicies, IamRole |-> "exec-old", IamPolicies |-> <<"Admin">>]>>)>>,
       <<Region \o ":dynamodb", Marshal(<<[TableName |-> "old", Status |-> "ACTIVE"]>>)>>,
       <<Region \o ":elasticache-enriched",
         Marshal(<<[CacheClusterId |-> "cache-old", SubnetGroupName |-> "private", VpcId |-> "vpc-0"]>>)>>,
       <<Region \o ":athena", Marshal(<<[Name |-> "old", State |-> "ENABLED"]>>)>>,
       <<Region \o ":glue", Marshal(<<[Name |-> "old", CatalogId |-> "1"]>>)>>,
       <<Region \o ":streaming-enriched",
         MarshalStreaming([SQS |-> <<[QueueName |-> "jobs", QueueUrl |-> QueueUrl("jobs"),
                                      IsFIFO |-> FALSE, Arn |-> "arn:aws:sqs:jobs"]>>,
                           SNS |-> <<>>, Kinesis |-> <<>>,
                           EventBridge |-> <<[Name |-> "old", Rules |-> <<>>]>>])>>,
       <<"iam:enriched",
         MarshalIAM([Roles |-> <<[RoleName |-> "role-old", CreateDate |-> "", IsServiceLinked |-> FALSE,
                                  TrustPolicy |-> <<>>, AttachedPolicies |-> <<"Admin">>,
                                  InlinePolicies |-> <<>>]>>,
                     Groups |-> <<>>])>>,
       <<"s3:enriched",
         MarshalS3([Buckets |-> <<[parseS3Bucket(OldBucket) EXCEPT !.Region = "us-east-1",
                                                                  !.Access = "private",
                                                                  !.Versioning = "Disabled"]>>])>> >>

\* The raw ElastiCache list, as the SyncDatabaseData of an earlier release of
\* the program cached it.
LegacyRaw ==
    << <<Region \o ":elasticache",
         Obj("CacheClusters", <<[CacheClusterId |-> "cache-old", CacheSubnetGroupName |-> "private"]>>)>> >>

\* A cache just created by InitDB; the cache a complete earlier sync left; the
\* cache of a sync that was stopped after its raw writes, on a database first
\* filled by the earlier release.
FreshCache   == EmptyTable
SyncedCache  == TableOf(OldRaw \o OldBuilt)
RawOnlyCache == TableOf(OldRaw \o LegacyRaw)
PriorCaches  == {FreshCache, SyncedCache, RawOnlyCache}

\* parseRedshiftCluster(raw)
parseRedshiftCluster(raw) == [ClusterId |-> raw.ClusterIdentifier]

\* LoadDataWarehouseData(region)
LoadDataWarehouseData(tbl) ==
    [data  |-> <<[Redshift |-> ParseAll(RawList(tbl, Region \o ":redshift", "Clusters"), parseRedshiftCluster),
                  Athena   |-> CachedSlice(tbl, Region \o ":athena"),
                  Glue     |-> CachedSlice(tbl, Region \o ":glue")]>>,
     err   |-> "",
     calls |-> <<>>]

(***************************************************************************)
(* Spec: the sync process.  From a cache a run can start from, the caller  *)
(* (the CLI's RunSync or an HTTP handler) runs one orchestrator to its     *)
(* return and then loads the category's view; or it loads a view at once.  *)
(***************************************************************************)

Orchestrators == {"SyncVPCData", "SyncComputeData", "SyncDatabaseData", "SyncDataWarehouseData",
                  "SyncStreamingData", "SyncAIData", "SyncIAMData", "SyncS3WithRegions"}

\* The loader a handler calls after the orchestrator of the same category.
LoaderOf == [SyncVPCData |-> "LoadVPCData", SyncComputeData |-> "LoadComputeData",
             SyncDatabaseData |-> "LoadDatabaseData",
             SyncDataWarehouseData |-> "LoadDataWarehouseData",
             SyncStreamingData |-> "LoadStreamingData", SyncAIData |-> "LoadAIData",
             SyncIAMData |-> "LoadIAMData", SyncS3WithRegions |-> "LoadS3DataEnriched"]

\* The caller enters an orchestrator: var results []SyncResult, data := &...{}.
CallSync(fn) ==
    /\ pc = AtIdle
    /\ pc' = At(fn, 1)
    /\ results' = <<>>
    /\ acc' = IF fn = "SyncStreamingData" THEN EmptyStreamingData
              ELSE IF fn = "SyncIAMData" THEN EmptyIAMData
              ELSE <<>>
    /\ UNCHANGED <<cache, topErr, prior, fetched, view, loadCalls>>

\* The caller loads a view: with nothing synced in this process, or after the
\* orchestrator of the category returned.
Load(fn, res) ==
    /\ \/ pc = AtIdle
       \/ \E o \in Orchestrators : pc = Returned(o) /\ LoaderOf[o] = fn
    /\ pc' = Returned(fn)
    /\ view' = [data |-> res.data, err |-> res.err]
    /\ loadCalls' = res.calls
    /\ UNCHANGED <<cache, results, topErr, acc, prior, fetched>>

Init ==
    /\ cache \in PriorCaches
    /\ now = 1
    /\ dbFault = FALSE
    /\ InitCacheVars
    /\ InitTrackerVars
    /\ pc = AtIdle
    /\ results = <<>>
    /\ topErr = ""
    /\ acc = <<>>
    /\ prior = cache
    /\ fetched = <<>>
    /\ view = [data |-> <<>>, err |-> ""]
    /\ loadCalls = <<>>
    /\ InitAuxOff

otherVars == <<now, dbFault, cacheVars, trackerVars, auxVars>>

Next ==
    \/ \E fn \in Orchestrators : CallSync(fn) /\ UNCHANGED otherVars
    \/ \E i \in 1..Len(VPCJobs) : \E aws \in Aws(RawDocs(VPCJobs[i].countKey)) :
           SyncVPCJob(i, aws) /\ UNCHANGED otherVars
    \/ \E aws \in Aws(LBDocs) : SyncVPCLoadBalancers(aws) /\ UNCHANGED otherVars
    \/ \E aws \in Aws(TGDocs) : SyncVPCTargetGroups(aws) /\ UNCHANGED otherVars
    \/ \E fn \in {"SyncComputeData", "SyncDatabaseData", "SyncDataWarehouseData"} :
           \E aws \in Aws(RawDocs("SecurityGroups")) :
               SyncSecurityGroupsQuietly(fn, aws) /\ UNCHANGED otherVars
    \/ \E aws \in Aws(EC2Docs) :
           \E ws \in InstanceWorlds(Flatten(ListField(aws.stdout, "Reservations"))) :
               SyncComputeEC2(aws, ws) /\ UNCHANGED otherVars
    \/ \E aws \in Aws(ClusterArnDocs) : \E awsDesc \in DescribeWorlds(aws) :
           SyncComputeECS(aws, awsDesc) /\ UNCHANGED otherVars
    \/ \E aws \in Aws(FunctionDocs) :
           \E ws \in WorldsOf(ListField(aws.stdout, "Functions"), FunctionWorlds) :
               SyncComputeLambda(aws, ws) /\ UNCHANGED otherVars
    \/ \E aws \in Aws(RDSDocs) : SyncDatabaseRDS(aws) /\ UNCHANGED otherVars
    \/ \E aws \in Aws(TableNameDocs) :
           \E ws \in PerItem(ListField(aws.stdout, "TableNames"), Aws(TableDocs)) :
               SyncDatabaseDynamoDB(aws, ws) /\ UNCHANGED otherVars
    \/ \E aws \in Aws(CacheClusterDocs) :
           \E ws \in WorldsOf(ListField(aws.stdout, "CacheClusters"), SubnetWorlds) :
               SyncDatabaseElastiCache(aws, ws) /\ UNCHANGED otherVars
    \/ \E aws \in Aws(RedshiftDocs) : SyncWarehouseRedshift(aws) /\ UNCHANGED otherVars
    \/ \E aws \in Aws(WorkGroupDocs) : SyncWarehouseAthena(aws) /\ UNCHANGED otherVars
    \/ \E aws \in Aws(GlueDocs) : SyncWarehouseGlue(aws) /\ UNCHANGED otherVars
    \/ \E aws \in Aws(QueueDocs) :
           \E ws \in PerItem(ListField(aws.stdout, "QueueUrls"), Aws(QueueAttrs)) :
               SyncStreamingSQS(aws, ws) /\ UNCHANGED otherVars
    \/ \E aws \in Aws(TopicDocs) :
           \E ws \in PerItem(ListField(aws.stdout, "Topics"),
                             [attrs : Aws(TopicAttrs), subs : Aws(SubDocs)]) :
               SyncStreamingSNS(aws, ws) /\ UNCHANGED otherVars
    \/ \E aws \in Aws(StreamDocs) :
           \E ws \in PerItem(ListField(aws.stdout, "StreamSummaries"), Aws(StreamDesc)) :
               SyncStreamingKinesis(aws, ws) /\ UNCHANGED otherVars
    \/ \E aws \in Aws(BusDocs) :
           \E ws \in PerItem(ListField(aws.stdout, "EventBuses"), Aws(RuleDocs)) :
               SyncStreamingEventBridge(aws, ws) /\ UNCHANGED otherVars
    \/ SyncStreamingWrite /\ UNCHANGED otherVars
    \/ \E aws \in Aws(RoleDocs) : \E ws \in WorldsOf(ListField(aws.stdout, "Roles"), RoleWorlds) :
           SyncIAMRoles(aws, ws) /\ UNCHANGED otherVars
    \/ \E aws \in Aws(GroupDocs) :
           \E ws \in PerItem(ListField(aws.stdout, "Groups"), GroupWorlds) :
               SyncIAMGroups(aws, ws) /\ UNCHANGED otherVars
    \/ SyncIAMWrite /\ UNCHANGED otherVars
    \/ \E i \in 1..Len(AIJobs) : \E aws \in Aws(AIDocs(i)) : SyncAIJob(i, aws) /\ UNCHANGED otherVars
    \/ SyncAIReturn /\ UNCHANGED otherVars
    \/ \E aws \in Aws(BucketDocs) :
           \E ws \in BucketAnswers(ListField(aws.stdout, "Buckets")) :
               SyncS3WithRegions(aws, ws) /\ UNCHANGED otherVars
    \/ Load("LoadVPCData", LoadVPCData(cache)) /\ UNCHANGED otherVars
    \/ \E ws \in InstanceWorlds(FallbackInstances(cache)) :
           Load("LoadComputeData", LoadComputeData(cache, ws)) /\ UNCHANGED otherVars
    \/ Load("LoadDatabaseData", LoadDatabaseData(cache)) /\ UNCHANGED otherVars
    \/ Load("LoadDataWarehouseData", LoadDataWarehouseData(cache)) /\ UNCHANGED otherVars
    \/ Load("LoadStreamingData", LoadStreamingData(cache)) /\ UNCHANGED otherVars
    \/ \E ws \in WorldsOf(RawList(cache, Region \o ":sagemaker-endpoints", "Endpoints"), EndpointWorlds) :
           Load("LoadAIData", LoadAIData(cache, ws)) /\ UNCHANGED otherVars
    \/ Load("LoadIAMData", LoadIAMData(cache)) /\ UNCHANGED otherVars
    \/ Load("LoadS3DataEnriched", LoadS3View(cache)) /\ UNCHANGED otherVars

Spec == Init /\ [][Next]_vars

(***************************************************************************)
(* Properties of the sync process (checked under Spec)                     *)
(***************************************************************************)

\* The sub-resources of SyncVPCData in the order of the code, with the key each
\* one caches under and the command whose failure it reports.
VPCSubResources ==
    [i \in 1..Len(VPCJobs) |-> [name |-> VPCJobs[i].name, cmd |-> "ec2", built |-> FALSE]]
    \o <<[name |-> "load-balancers", cmd |-> "elbv2", built |-> TRUE],
         [name |-> "target-groups",  cmd |-> "elbv2", built |-> TRUE]>>

\* The names of the elements of a built list, and of the raw elements answered.
BuiltNames(blob) == [i \in 1..Len(Unmarshal(blob)) |-> Unmarshal(blob)[i].Name]
AnsweredNames(name, items) ==
    [i \in 1..Len(items) |-> IF name = "load-balancers" THEN items[i].LoadBalancerName
                             ELSE items[i].TargetGroupName]

\* A row is as the run found it: still absent, or the very same row.
Untouched(key) ==
    /\ key \in DOMAIN cache <=> key \in DOMAIN prior
    /\ key \in DOMAIN cache => cache[key] = prior[key]

\* C1: partial-failure isolation in SyncVPCData, on a store that accepts the
\* writes: when the run returns, the list has exactly one entry per sub-resource;
\* a sub-resource that succeeded has an entry with its count and its key holds
\* the data of this run; one that failed has an entry with the diagnostic text,
\* its key is left exactly as it was, and the siblings are written regardless.
C1_PartialFailureIsolation ==
    pc = Returned("SyncVPCData") =>
        /\ Len(results) = Len(VPCSubResources)
        /\ \A i \in 1..Len(VPCSubResources) :
             LET sub == VPCSubResources[i]
                 key == Region \o ":" \o sub.name
                 aws == fetched[sub.name]
             IN /\ results[i].Service = sub.name
                /\ aws.exit = 0 =>
                     /\ results[i].Error = ""
                     /\ results[i].Count = Len(aws.stdout.items)
                     /\ key \in DOMAIN cache
                     /\ cache[key].synced_at = now
                     /\ IF sub.built
                        THEN BuiltNames(cache[key].value) = AnsweredNames(sub.name, aws.stdout.items)
                        ELSE cache[key].value = aws.stdout
                /\ aws.exit # 0 =>
                     /\ results[i].Error = "aws " \o sub.cmd \o ": " \o aws.stderr
                     /\ aws.stderr # ""
                     /\ Untouched(key)

\* C1 witness: a returned run over a synced cache in which a sub-resource
\* failed between two that succeeded and replaced their rows.
C1_Witness ==
    /\ pc = Returned("SyncVPCData")
    /\ prior = SyncedCache
    /\ fetched["vpcs"].exit = 0 /\ cache[Region \o ":vpcs"].value = Obj("Vpcs", <<"new">>)
    /\ fetched["subnets"].exit # 0 /\ results[2].Error # ""
    /\ fetched["igws"].exit = 0 /\ cache[Region \o ":igws"] # prior[Region \o ":igws"]
    /\ fetched["load-balancers"].exit # 0
    /\ fetched["target-groups"].exit = 0 /\ results[8].Count = 1

\* The result order of each orchestrator that returns ([]SyncResult, nil).
ResultOrder ==
    [SyncVPCData           |-> [i \in 1..Len(VPCSubResources) |-> VPCSubResources[i].name],
     SyncComputeData       |-> <<"ec2", "ecs", "lambda">>,
     SyncDatabaseData      |-> <<"rds", "dynamodb", "elasticache">>,
     SyncDataWarehouseData |-> <<"redshift", "athena", "glue">>,
     SyncStreamingData     |-> <<"sqs", "sns", "kinesis", "eventbridge">>,
     SyncAIData            |-> [i \in 1..Len(AIJobs) |-> AIJobs[i].name],
     SyncIAMData           |-> <<"iam-roles", "iam-groups">>]

Services(res) == [i \in 1..Len(res) |-> res[i].Service]
AllFailed(res) == res # <<>> /\ \A i \in 1..Len(res) : res[i].Error # ""

\* C8: the seven per-category orchestrators return a nil top-level error for
\* every combination of sub-resource outcomes, all failing included, and their
\* result list names the sub-resources in the same fixed order on every run.
C8_NilErrorFixedOrder ==
    \A fn \in DOMAIN ResultOrder :
        pc = Returned(fn) => topErr = "" /\ Services(results) = ResultOrder[fn]

\* C8 witness: SyncComputeData returned with every sub-resource failing.
C8_Witness ==
    /\ pc = Returned("SyncComputeData")
    /\ AllFailed(results)
    /\ Len(results) = 3

\* C7: a failure of an external call made for a sub-resource is captured in
\* that sub-resource's SyncResult.error: when list-clusters succeeds and the
\* dependent describe-clusters call fails, the "ecs" result of SyncComputeData
\* carries a non-empty error, not a success with count 0.
C7_DescribeFailureReported ==
    (/\ pc = Returned("SyncComputeData")
     /\ fetched["ecs"].exit = 0
     /\ fetched["ecs.describe"] = AwsFails)
    => results[2].Service = "ecs" /\ results[2].Error # ""

Loaders == {LoaderOf[o] : o \in Orchestrators}

\* C5: the loaders never invoke the Process Runner: whatever the cache holds, a
\* load issues no external call.
C5_LoadersCallNothing ==
    (pc.ret /\ pc.fn \in Loaders) => loadCalls = <<>>

\* The enriched entries each orchestrator is responsible for.
EnrichedKeysOf ==
    [SyncComputeData   |-> {Region \o ":ec2-enriched", Region \o ":ecs-enriched"},
     SyncDatabaseData  |-> {Region \o ":elasticache-enriched"},
     SyncStreamingData |-> {Region \o ":streaming-enriched"},
     SyncIAMData       |-> {"iam:enriched"},
     SyncS3WithRegions |-> {"s3:enriched"}]

\* The elements this run's answer to a list call names (none when it failed).
Answered(name, listKey) ==
    IF name \in DOMAIN fetched /\ fetched[name].exit = 0
    THEN ListField(fetched[name].stdout, listKey) ELSE <<>>
Succeeded(name) == name \in DOMAIN fetched /\ fetched[name].exit = 0

\* The resources an enriched entry lists, by name, in order.
EnrichedNames(key) ==
    LET v == cache[key].value
    IN IF key = Region \o ":ec2-enriched"
       THEN <<[i \in 1..Len(Unmarshal(v)) |-> Unmarshal(v)[i].InstanceId]>>
       ELSE IF key = Region \o ":ecs-enriched"
       THEN <<[i \in 1..Len(Unmarshal(v)) |-> Unmarshal(v)[i].ClusterName]>>
       ELSE IF key = Region \o ":elasticache-enriched"
       THEN <<[i \in 1..Len(Unmarshal(v)) |-> Unmarshal(v)[i].CacheClusterId]>>
       ELSE IF key = Region \o ":streaming-enriched"
       THEN <<[i \in 1..Len(Unmarshal(v.sqs)) |-> Unmarshal(v.sqs)[i].QueueName],
              [i \in 1..Len(Unmarshal(v.sns)) |-> Unmarshal(v.sns)[i].Name],
              [i \in 1..Len(Unmarshal(v.kinesis)) |-> Unmarshal(v.kinesis)[i].StreamName],
              [i \in 1..Len(Unmarshal(v.eventbridge)) |-> Unmarshal(v.eventbridge)[i].Name]>>
       ELSE IF key = "iam:enriched"
       THEN <<[i \in 1..Len(Unmarshal(v.roles)) |-> Unmarshal(v.roles)[i].RoleName],
              [i \in 1..Len(Unmarshal(v.groups)) |-> Unmarshal(v.groups)[i].GroupName]>>
       ELSE <<[i \in 1..Len(Unmarshal(v.buckets)) |-> Unmarshal(v.buckets)[i].Name]>>

\* The resources this run obtained for an enriched entry, by name, in order.
ObtainedNames(key) ==
    IF key = Region \o ":ec2-enriched"
    THEN LET x == Flatten(Answered("ec2", "Reservations"))
         IN <<[i \in 1..Len(x) |-> x[i].InstanceId]>>
    ELSE IF key = Region \o ":ecs-enriched"
    THEN LET x == IF Succeeded("ecs") /\ fetched["ecs.describe"].exit = 0
                  THEN ListField(fetched["ecs.describe"].stdout, "clusters") ELSE <<>>
         IN <<[i \in 1..Len(x) |-> x[i].clusterName]>>
    ELSE IF key = Region \o ":elasticache-enriched"
    THEN LET x == Answered("elasticache", "CacheClusters")
         IN <<[i \in 1..Len(x) |-> x[i].CacheClusterId]>>
    ELSE IF key = Region \o ":streaming-enriched"
    THEN LET q == Answered("sqs", "QueueUrls")
             t == Answered("sns", "Topics")
             k == Answered("kinesis", "StreamSummaries")
             b == Answered("eventbridge", "EventBuses")
         IN <<[i \in 1..Len(q) |-> q[i][Len(q[i])]],
              [i \in 1..Len(t) |-> t[i].TopicArn[Len(t[i].TopicArn)]],
              [i \in 1..Len(k) |-> k[i].StreamName],
              [i \in 1..Len(b) |-> b[i].Name]>>
    ELSE IF key = "iam:enriched"
    THEN LET r == Answered("iam-roles", "Roles")
             g == Answered("iam-groups", "Groups")
         IN <<[i \in 1..Len(r) |-> r[i].RoleName], [i \in 1..Len(g) |-> g[i].GroupName]>>
    ELSE LET b == Answered("s3", "Buckets")
         IN <<[i \in 1..Len(b) |-> b[i].Name]>>

\* The entry was written by this run and lists exactly what this run obtained.
RebuiltThisRun(key) ==
    /\ key \in DOMAIN cache
    /\ cache[key].synced_at = now
    /\ EnrichedNames(key) = ObtainedNames(key)

\* C4 (as stated): every enriched entry is fully rebuilt by each sync run of
\* its category: after the run returns, the entry holds only data obtained in
\* that run and nothing carried over from a previous run.
C4_EnrichedRebuiltEveryRun ==
    \A fn \in DOMAIN EnrichedKeysOf :
        pc = Returned(fn) =>
            \A key \in EnrichedKeysOf[fn] : key \in DOMAIN cache => RebuiltThisRun(key)

\* The call whose success decides whether the run writes the enriched entry.
PrimaryCall ==
    [k \in UNION {EnrichedKeysOf[fn] : fn \in DOMAIN EnrichedKeysOf} |->
        IF k = Region \o ":ec2-enriched" THEN "ec2"
        ELSE IF k = Region \o ":ecs-enriched" THEN "ecs"
        ELSE IF k = Region \o ":elasticache-enriched" THEN "elasticache"
        ELSE IF k = "s3:enriched" THEN "s3"
        ELSE ""]

\* The fields behind a failed sub-call are empty in the rebuilt entry.
FailedFieldsEmpty(key) ==
    LET v == cache[key].value
    IN IF key = Region \o ":ec2-enriched"
       THEN \A i \in 1..Len(Unmarshal(v)) :
               fetched["ec2.resolve"][i].profile = AwsFails
                   => Unmarshal(v)[i].IamRole = "" /\ Unmarshal(v)[i].IamPolicies = <<>>
       ELSE IF key = Region \o ":ecs-enriched"
       THEN fetched["ecs.describe"] = AwsFails => v.null
       ELSE IF key = Region \o ":elasticache-enriched"
       THEN \A i \in 1..Len(Unmarshal(v)) :
               fetched["elasticache.each"][i] = AwsFails => Unmarshal(v)[i].VpcId = ""
       ELSE IF key = Region \o ":streaming-enriched"
       THEN /\ ~Succeeded("sqs") => v.sqs.null
            /\ ~Succeeded("sns") => v.sns.null
            /\ ~Succeeded("kinesis") => v.kinesis.null
            /\ ~Succeeded("eventbridge") => v.eventbridge.null
       ELSE IF key = "iam:enriched"
       THEN /\ ~Succeeded("iam-roles") => v.roles.null
            /\ ~Succeeded("iam-groups") => v.groups.null
       ELSE \A i \in 1..Len(Unmarshal(v.buckets)) :
               fetched["s3.each"][i].location = AwsFails => Unmarshal(v.buckets)[i].Region = ""

\* C4 (amended): region:streaming-enriched and iam:enriched are rebuilt by every
\* run of their category; region:ec2-enriched, region:ecs-enriched,
\* region:elasticache-enriched and s3:enriched are rebuilt when the primary list
\* call of the run succeeds and are left exactly as they were when it fails.  A
\* rebuilt entry lists only what this run obtained, with the fields behind a
\* failed sub-call empty.
C4_RebuiltWhenWritten ==
    \A fn \in DOMAIN EnrichedKeysOf :
        pc = Returned(fn) =>
            \A key \in EnrichedKeysOf[fn] :
                IF PrimaryCall[key] = "" \/ Succeeded(PrimaryCall[key])
                THEN RebuiltThisRun(key) /\ FailedFieldsEmpty(key)
                ELSE Untouched(key)

\* C4 witness: over a synced cache, SyncComputeData rebuilt region:ec2-enriched
\* with an instance whose profile lookup failed, and left region:ecs-enriched
\* alone because list-clusters failed.
C4_Witness ==
    /\ pc = Returned("SyncComputeData")
    /\ prior = SyncedCache
    /\ Succeeded("ec2")
    /\ Len(fetched["ec2.resolve"]) = 1 /\ fetched["ec2.resolve"][1].profile = AwsFails
    /\ cache[Region \o ":ec2-enriched"].value
         = Marshal(<<[InstanceId |-> "i-new", IamRole |-> "", IamPolicies |-> <<>>]>>)
    /\ ~Succeeded("ecs")
    /\ cache[Region \o ":ecs-enriched"] = prior[Region \o ":ecs-enriched"]

\* The resources a raw list names, under the same key the enriched form uses.
Ids(items, id(_)) == [i \in 1..Len(items) |-> id(items[i])]

\* C6: for every category that has an enriched key, the loader returns the view
\* stored under the enriched key when it is present, and rebuilds the view from
\* the raw keys when it is absent, so that a cache holding only raw keys still
\* yields the resources.
C6_EnrichedElseRaw ==
    LET d == view.data[1]
        InstanceId(x) == x.InstanceId
        CacheClusterId(x) == x.CacheClusterId
        Name(x) == x.Name
        QueueUrlOf(x) == x.QueueUrl
        RoleName(x) == x.RoleName
    IN /\ pc = Returned("LoadComputeData") =>
            IF Region \o ":ec2-enriched" \in DOMAIN cache
            THEN d.EC2 = Unmarshal(cache[Region \o ":ec2-enriched"].value)
            ELSE Ids(d.EC2, InstanceId)
                   = Ids(Flatten(RawList(cache, Region \o ":ec2", "Reservations")), InstanceId)
       /\ pc = Returned("LoadDatabaseData") =>
            IF Region \o ":elasticache-enriched" \in DOMAIN cache
            THEN d.ElastiCache = Unmarshal(cache[Region \o ":elasticache-enriched"].value)
            ELSE Ids(d.ElastiCache, CacheClusterId)
                   = Ids(RawList(cache, Region \o ":elasticache", "CacheClusters"), CacheClusterId)
       /\ pc = Returned("LoadS3DataEnriched") =>
            IF "s3:enriched" \in DOMAIN cache
            THEN d = UnmarshalS3(cache["s3:enriched"].value)
            ELSE Ids(d.Buckets, Name) = Ids(RawList(cache, "s3", "Buckets"), Name)
       /\ pc = Returned("LoadStreamingData") =>
            IF Region \o ":streaming-enriched" \in DOMAIN cache
            THEN view.data = <<UnmarshalStreaming(cache[Region \o ":streaming-enriched"].value)>>
            ELSE /\ view.data # <<>>
                 /\ Ids(d.SQS, QueueUrlOf) = RawList(cache, Region \o ":sqs", "QueueUrls")
       /\ pc = Returned("LoadIAMData") =>
            IF "iam:enriched" \in DOMAIN cache
            THEN view.data = <<UnmarshalIAM(cache["iam:enriched"].value)>>
            ELSE /\ view.data # <<>>
                 /\ Ids(d.Roles, RoleName) = Ids(RawList(cache, "iam:roles", "Roles"), RoleName)

(***************************************************************************)
(* SpecPolicy: ParseResourcePolicies applied, repeatedly, to one policy    *)
(* text drawn from PolicyTexts.                                            *)
(***************************************************************************)

\* A text that is not JSON: json.Unmarshal returns a syntax error, which the
\* code drops, and leaves the policy struct zero (no Statement).
NotJSON == Obj("<not json>", <<>>)

\* Principal values: absent, a scalar, an object with one key mapping to an
\* array, an object with an array key and a scalar key, an object whose only
\* array is empty.
Principals ==
    {JNull, JStr("*"), JStr("arn:aws:iam::1:root"),
     JMap(<<[k |-> "AWS", v |-> JArr(<<JStr("arn:a"), JStr("arn:b")>>)]>>),
     JMap(<<[k |-> "AWS", v |-> JArr(<<JStr("arn:a")>>)],
            [k |-> "Service", v |-> JStr("sqs.amazonaws.com")]>>),
     JMap(<<[k |-> "AWS", v |-> JArr(<<>>)]>>)}
Actions ==
    {JNull, JStr("sqs:SendMessage"), JArr(<<JStr("sqs:SendMessage"), JStr("sqs:ReceiveMessage")>>)}
Statements ==
    {[Sid |-> sid, Effect |-> eff, Principal |-> pr, Action |-> ac] :
        sid \in {"", "s1"}, eff \in {"", "Allow"}, pr \in Principals, ac \in Actions}
PolicyTexts ==
    {NotJSON, EmptyObj, Obj("Statement", <<>>)}
    \cup {Obj("Statement", <<st>>) : st \in Statements}
    \cup {Obj("Statement", <<[Sid |-> "s1", Effect |-> "Allow", Principal |-> JStr("*"),
                              Action |-> JStr("sqs:SendMessage")],
                             [Sid |-> "", Effect |-> "Deny", Principal |-> JNull,
                              Action |-> JNull]>>)}

InitPolicy ==
    /\ InitStore /\ InitCacheVars /\ InitTrackerVars /\ InitSyncIdle
    /\ InitRegionsOff /\ InitReadOff /\ InitCallOff
    /\ policyText \in PolicyTexts
    /\ policies = <<>>

\* One call ParseResourcePolicies(policyText); the Go runtime picks the order
\* in which each Principal map is ranged over.
ParsePolicy ==
    /\ Len(policies) < MaxParses
    /\ \E o \in IterationOrders(ListField(policyText, "Statement")) :
           policies' = Append(policies, ParseResourcePolicies(policyText, o))
    /\ UNCHANGED policyText

NextPolicy ==
    ParsePolicy /\ UNCHANGED <<storeVars, cacheVars, trackerVars, syncVars, regionVars, lastRead,
                              callVars>>

SpecPolicy == InitPolicy /\ [][NextPolicy]_vars

\* The statements a text decodes to.
DecodedStatements == ListField(policyText, "Statement")

RECURSIVE FirstInFieldOrder(_)
\* The first scalar or first array element among the values of a Principal
\* object, taken in field order ("" when there is none).
FirstInFieldOrder(members) ==
    IF members = <<>> THEN ""
    ELSE IF FirstString(Head(members).v, "") # "" THEN FirstString(Head(members).v, "")
    ELSE FirstInFieldOrder(Tail(members))

\* C13: when a statement's Principal is an object, ParseResourcePolicies
\* returns the first array element (or the scalar) of the first key in field
\* order, and returns the same result on every run on the same input.
C13_ObjectPrincipalDeterministic ==
    \A r \in 1..Len(policies) :
        /\ policies[r] = policies[1]
        /\ \A i \in 1..Len(DecodedStatements) :
              DecodedStatements[i].Principal.t = "object" =>
                  policies[r][i].Principal = FirstInFieldOrder(DecodedStatements[i].Principal.m)

\* C14: when a statement's Principal is a scalar string, the output statement's
\* principal is that string, unchanged.
C14_ScalarPrincipalUnchanged ==
    \A r \in 1..Len(policies) : \A i \in 1..Len(DecodedStatements) :
        DecodedStatements[i].Principal.t = "string" =>
            policies[r][i].Principal = DecodedStatements[i].Principal.s

\* C14 witness: a text whose statement has the scalar principal
\* arn:aws:iam::1:root has been parsed.
C14_Witness ==
    /\ Len(policies) > 0
    /\ Len(DecodedStatements) = 1
    /\ DecodedStatements[1].Principal = JStr("arn:aws:iam::1:root")
    /\ policies[1][1].Principal = "arn:aws:iam::1:root"

\* C15: ParseResourcePolicies never fails: a text that is not JSON yields an
\* empty list, and every statement yields one output statement, in order, with
\* a missing Sid, Effect, Principal or Action as the empty string.
C15_NeverFails ==
    \A r \in 1..Len(policies) :
        /\ policyText = NotJSON => policies[r] = <<>>
        /\ Len(policies[r]) = Len(DecodedStatements)
        /\ \A i \in 1..Len(DecodedStatements) :
              /\ policies[r][i].Sid = DecodedStatements[i].Sid
              /\ policies[r][i].Effect = DecodedStatements[i].Effect
              /\ DecodedStatements[i].Principal = JNull => policies[r][i].Principal = ""
              /\ DecodedStatements[i].Action = JNull => policies[r][i].Action = ""

\* C15 witness: a statement with none of the four fields has been parsed into
\* one output statement of empty strings.
C15_Witness ==
    /\ policyText = Obj("Statement", <<[Sid |-> "", Effect |-> "", Principal |-> JNull,
                                        Action |-> JNull]>>)
    /\ Len(policies) > 0
    /\ policies[1] = <<[Sid |-> "", Effect |-> "", Principal |-> "", Action |-> ""]>>

(***************************************************************************)
(* SpecRegions: the regions table (name PRIMARY KEY, enabled), its four    *)
(* store functions, and the two HTTP-side users of it: ensureRegionsSeeded *)
(* and handleRegionToggle.  net/http runs every request in a goroutine of  *)
(* its own, so two handlers interleave at the granularity of their store   *)
(* calls.  The table is a set of rows [name, enabled] with distinct names. *)
(***************************************************************************)

Handlers == {"h1", "h2"}

\* The names of the model in the collation order of ORDER BY name.
RegionOrder == <<"eu-west-1", "us-east-1", "us-west-2">>

\* Outputs of `aws ec2 describe-regions --query Regions[...].[RegionName]`:
\* a list of one-element lists (opt-in status may change between two calls).
DiscoveryOutputs ==
    {<<<<"us-east-1">>, <<"us-west-2">>>>,
     <<<<"eu-west-1">>, <<"us-east-1">>, <<"us-west-2">>>>,
     <<<<"us-east-1">>, <<>>>>}

\* Path suffixes of PUT /settings/regions/<name>: rows, a name with no row.
ToggleNames == {"us-east-1", "us-west-2", "ap-south-1"}

RowNames(tbl) == {r.name : r \in tbl}

RegionInfo(name, enabled) == [name |-> name, enabled |-> enabled]

\* An INSERT that overwrites the flag of an existing row.
SetRegions_Upsert(tbl, names) ==
    {r \in tbl : \A i \in 1..Len(names) : names[i] # r.name}
    \cup {RegionInfo(names[i], TRUE) : i \in 1..Len(names)}

\* SetRegions: one transaction of INSERT ... VALUES (?, 1) ON CONFLICT(name)
\* DO NOTHING per name.
SetRegions(tbl, names) ==
    tbl \cup {RegionInfo(names[i], TRUE) :
                 i \in {j \in 1..Len(names) : names[j] \notin RowNames(tbl)}}

\* SELECT name, enabled FROM regions ORDER BY name
GetRegions(tbl) ==
    LET present == SelectSeq(RegionOrder, LAMBDA n : n \in RowNames(tbl))
    IN [i \in 1..Len(present) |-> CHOOSE r \in tbl : r.name = present[i]]

\* SELECT name FROM regions WHERE enabled = 1 ORDER BY name
GetEnabledRegions(tbl) ==
    SelectSeq(RegionOrder, LAMBDA n : RegionInfo(n, TRUE) \in tbl)

\* An UPDATE without its WHERE clause.
SetRegionEnabled_All(tbl, name, enabled) ==
    {RegionInfo(r.name, enabled) : r \in tbl}

\* UPDATE regions SET enabled = ? WHERE name = ?
SetRegionEnabled(tbl, name, enabled) ==
    {IF r.name = name THEN RegionInfo(r.name, enabled) ELSE r : r \in tbl}

\* names = the first element of every non-empty inner list.
DiscoveredNames(nested) ==
    LET full == SelectSeq(nested, LAMBDA r : Len(r) > 0)
    IN [i \in 1..Len(full) |-> full[i][1]]

HandlerIdle == [pc |-> "idle", names |-> <<>>, enabled |-> FALSE]

\* regionOp: the last store or CLI call made, with the table it met.
NoOp == [op |-> "none", name |-> "", enabled |-> FALSE, names |-> <<>>, before |-> {}]

InitRegions ==
    /\ InitStore /\ InitCacheVars /\ InitTrackerVars /\ InitSyncIdle
    /\ InitPolicyOff /\ InitReadOff /\ InitCallOff
    /\ regions = {}
    /\ handlers = [h \in Handlers |-> HandlerIdle]
    /\ discoveries = 0
    /\ regionOp = NoOp
    /\ installed \in BOOLEAN

\* ensureRegionsSeeded, first part: GetRegions and the two early returns.
EnsureRead(h) ==
    /\ handlers[h].pc = "idle"
    /\ handlers' = [handlers EXCEPT ![h].pc =
                       IF Len(GetRegions(regions)) > 0 \/ ~installed
                       THEN "idle" ELSE "discover"]
    /\ regionOp' = [NoOp EXCEPT !.op = "GetRegions", !.before = regions]
    /\ UNCHANGED <<regions, discoveries, installed>>

\* ensureRegionsSeeded, second part: awscli.Run("ec2", "describe-regions", ...)
\* fails (return) or yields the nested list the names are taken from.
EnsureDiscover(h) ==
    /\ handlers[h].pc = "discover"
    /\ discoveries < MaxDiscoveries
    /\ discoveries' = discoveries + 1
    /\ regionOp' = [NoOp EXCEPT !.op = "describe-regions", !.before = regions]
    /\ \/ handlers' = [handlers EXCEPT ![h] = HandlerIdle]
       \/ \E out \in DiscoveryOutputs :
              handlers' = [handlers EXCEPT ![h] =
                              [pc |-> "set", names |-> DiscoveredNames(out), enabled |-> FALSE]]
    /\ UNCHANGED <<regions, installed>>

\* ensureRegionsSeeded, last part: SetRegions(names).
EnsureSet(h) ==
    /\ handlers[h].pc = "set"
    /\ regions' = SetRegions(regions, handlers[h].names)
    /\ regionOp' = [NoOp EXCEPT !.op = "SetRegions", !.names = handlers[h].names,
                                !.before = regions]
    /\ handlers' = [handlers EXCEPT ![h] = HandlerIdle]
    /\ UNCHANGED <<discoveries, installed>>

\* handleRegionToggle for one name: SetRegionEnabled(name, enabled).
Toggle(h, name, enabled) ==
    /\ handlers[h].pc = "idle"
    /\ regions' = SetRegionEnabled(regions, name, enabled)
    /\ regionOp' = [NoOp EXCEPT !.op = "SetRegionEnabled", !.name = name,
                                !.enabled = enabled, !.before = regions]
    /\ UNCHANGED <<handlers, discoveries, installed>>

\* handleRegionToggle for "all": GetRegions, then one SetRegionEnabled per row.
ToggleAllRead(h, enabled) ==
    /\ handlers[h].pc = "idle"
    /\ LET rows == GetRegions(regions)
       IN handlers' = [handlers EXCEPT ![h] =
                          IF rows = <<>> THEN HandlerIdle
                          ELSE [pc |-> "toggle_all",
                                names |-> [i \in 1..Len(rows) |-> rows[i].name],
                                enabled |-> enabled]]
    /\ regionOp' = [NoOp EXCEPT !.op = "GetRegions", !.before = regions]
    /\ UNCHANGED <<regions, discoveries, installed>>

ToggleAllStep(h) ==
    /\ handlers[h].pc = "toggle_all"
    /\ regions' = SetRegionEnabled(regions, Head(handlers[h].names), handlers[h].enabled)
    /\ regionOp' = [NoOp EXCEPT !.op = "SetRegionEnabled", !.name = Head(handlers[h].names),
                                !.enabled = handlers[h].enabled, !.before = regions]
    /\ handlers' = [handlers EXCEPT ![h] =
                       IF Tail(handlers[h].names) = <<>> THEN HandlerIdle
                       ELSE [@ EXCEPT !.names = Tail(@)]]
    /\ UNCHANGED <<discoveries, installed>>

regionFrame == <<storeVars, cacheVars, trackerVars, syncVars, policyVars, lastRead, callVars>>

NextRegions ==
    \/ \E h \in Handlers : EnsureRead(h) /\ UNCHANGED regionFrame
    \/ \E h \in Handlers : EnsureDiscover(h) /\ UNCHANGED regionFrame
    \/ \E h \in Handlers : EnsureSet(h) /\ UNCHANGED regionFrame
    \/ \E h \in Handlers, name \in ToggleNames, enabled \in BOOLEAN :
           Toggle(h, name, enabled) /\ UNCHANGED regionFrame
    \/ \E h \in Handlers, enabled \in BOOLEAN :
           ToggleAllRead(h, enabled) /\ UNCHANGED regionFrame
    \/ \E h \in Handlers : ToggleAllStep(h) /\ UNCHANGED regionFrame

SpecRegions == InitRegions /\ [][NextRegions]_vars

\* C16: SetRegionEnabled(name, false) followed by GetEnabledRegions omits
\* exactly that region and no other; the enabled flag of every other region
\* and the set of region rows are unchanged by the call.
C16_DisableOmitsExactlyOne ==
    (regionOp.op = "SetRegionEnabled" /\ ~regionOp.enabled) =>
        /\ GetEnabledRegions(regions) =
               SelectSeq(GetEnabledRegions(regionOp.before), LAMBDA n : n # regionOp.name)
        /\ RowNames(regions) = RowNames(regionOp.before)
        /\ \A r \in regionOp.before : r.name # regionOp.name => r \in regions

\* C16 witness: us-west-2 was disabled while all three regions were enabled,
\* and the enabled list is now the other two.
C16_Witness ==
    /\ regionOp.op = "SetRegionEnabled" /\ regionOp.name = "us-west-2" /\ ~regionOp.enabled
    /\ GetEnabledRegions(regionOp.before) = RegionOrder
    /\ GetEnabledRegions(regions) = <<"eu-west-1", "us-east-1">>

\* C17: SetRegions(names) is insert-if-absent: each name with no row gets a
\* row with enabled = true, each name that already has a row keeps its flag,
\* and calling it again with the same names changes nothing.
C17_InsertIfAbsent ==
    regionOp.op = "SetRegions" =>
        /\ \A i \in 1..Len(regionOp.names) :
              regionOp.names[i] \notin RowNames(regionOp.before) =>
                  RegionInfo(regionOp.names[i], TRUE) \in regions
        /\ regionOp.before \subseteq regions
        /\ RowNames(regions) =
               RowNames(regionOp.before) \cup {regionOp.names[i] : i \in 1..Len(regionOp.names)}
        /\ SetRegions(regions, regionOp.names) = regions

\* C17 witness: SetRegions ran on a table where us-west-2 was disabled, added
\* eu-west-1 enabled, and us-west-2 is still disabled.
C17_Witness ==
    /\ regionOp.op = "SetRegions"
    /\ RegionInfo("us-west-2", FALSE) \in regionOp.before
    /\ regionOp.names = RegionOrder
    /\ "eu-west-1" \notin RowNames(regionOp.before)
    /\ RegionInfo("eu-west-1", TRUE) \in regions
    /\ RegionInfo("us-west-2", FALSE) \in regions

\* C18: region rows are seeded once and never deleted: the set of names never
\* shrinks; once the table is non-empty ensureRegionsSeeded issues no
\* region-discovery call and changes no row; afterwards rows change only
\* through SetRegionEnabled.
C18_SeededOnce ==
    /\ RowNames(regionOp.before) \subseteq RowNames(regions)
    /\ regionOp.op = "describe-regions" => regionOp.before = {}
    /\ (regionOp.op = "SetRegions" /\ regionOp.before # {}) => regions = regionOp.before
    /\ (regionOp.before # {} /\ regions # regionOp.before) => regionOp.op = "SetRegionEnabled"

InitFault ==
    /\ InitStore /\ InitCacheVars /\ InitTrackerVars /\ InitSyncIdle
    /\ InitPolicyOff /\ InitRegionsOff /\ InitCallOff
    /\ lastRead = <<>>

\* The store starts or stops failing.
StoreFault ==
    /\ dbFault' = ~dbFault
    /\ UNCHANGED <<cache, now, lastRead>>

\* WriteCache(key, data) as one call.
FaultWrite(key, data) ==
    /\ cache' = WriteCache(cache, key, data).tbl
    /\ UNCHANGED <<now, dbFault, lastRead>>

\* ReadCache(key) as one call.
FaultRead(key) ==
    /\ Len(lastRead) < MaxReads
    /\ lastRead' = Append(lastRead,
                          [key |-> key, fault |-> dbFault,
                           row |-> IF key \in DOMAIN cache THEN <<cache[key]>> ELSE <<>>,
                           ret |-> ReadCache(cache, key)])
    /\ UNCHANGED <<cache, now, dbFault>>

FaultTick ==
    /\ Tick
    /\ UNCHANGED <<cache, dbFault, lastRead>>

faultFrame == <<cacheVars, trackerVars, syncVars, policyVars, regionVars, callVars>>

NextFault ==
    \/ StoreFault /\ UNCHANGED faultFrame
    \/ \E key \in CacheKeys, data \in Blobs : FaultWrite(key, data) /\ UNCHANGED faultFrame
    \/ \E key \in CacheKeys : FaultRead(key) /\ UNCHANGED faultFrame
    \/ FaultTick /\ UNCHANGED faultFrame

SpecFault == InitFault /\ [][NextFault]_vars

\* C20: ReadCache on a key that was never written returns (nil, nil), absent
\* with no error, whereas a store-level I/O failure returns a non-nil error
\* (and no data); the two outcomes are never confused.
C20_AbsentIsNotAnError ==
    \A i \in 1..Len(lastRead) :
        LET c == lastRead[i] IN
        /\ c.fault => (c.ret.err # "" /\ c.ret.raw = <<>>)
        /\ (~c.fault /\ c.row = <<>>) => c.ret = [raw |-> <<>>, err |-> ""]
        /\ (~c.fault /\ c.row # <<>>) => c.ret = [raw |-> <<c.row[1].value>>, err |-> ""]

\* C20 witness: the same key, never written, was read once while the store
\* worked, giving (nil, nil), and once while it failed, giving an error.
C20_Witness ==
    /\ Len(lastRead) = 2
    /\ lastRead[1].key = lastRead[2].key
    /\ lastRead[1].row = <<>> /\ lastRead[2].row = <<>>
    /\ ~lastRead[1].fault /\ lastRead[1].ret = [raw |-> <<>>, err |-> ""]
    /\ lastRead[2].fault /\ lastRead[2].ret.err # "" /\ lastRead[2].ret.raw = <<>>

(***************************************************************************)
(* Function specifications.  Each draws the arguments of one function from *)
(* a bounded set (callArg) and applies the function to them once           *)
(* (callRet).                                                              *)
(***************************************************************************)

InitCallOthers ==
    /\ InitStore /\ InitCacheVars /\ InitTrackerVars /\ InitSyncIdle
    /\ InitPolicyOff /\ InitRegionsOff /\ InitReadOff

callFrame == <<storeVars, cacheVars, trackerVars, syncVars, policyVars, regionVars, lastRead>>

(***************************************************************************)
(* SpecRunner: awscli.Run on one command line and one process outcome.     *)
(***************************************************************************)

CommandLines ==
    {<<"ec2", "describe-vpcs">>, <<"ec2", "describe-regions", "--all-regions">>,
     <<"s3api", "list-buckets">>, <<"sqs", "list-queues">>, <<"iam", "list-roles">>,
     <<"sts", "get-caller-identity">>}

\* Outcomes of exec.Command("aws", ...).Output(): exit 0 with a document on
\* stdout; a non-zero exit with or without text on stderr (something may have
\* been printed on stdout before); a process that could not be started; a
\* process whose output could not be read.
ProcessOutcomes ==
    {AwsPrints(d) : d \in {EmptyObj, Obj("Vpcs", <<"vpc-1">>)}}
    \cup {[exit |-> e, stdout |-> d, stderr |-> text, cause |-> ""] :
             e \in {1, 255}, d \in {NilDoc, Obj("Vpcs", <<"vpc-1">>)},
             text \in {"", "AccessDenied"}}
    \cup {[exit |-> -1, stdout |-> NilDoc, stderr |-> "",
           cause |-> "exec: \"aws\": executable file not found in $PATH"],
          [exit |-> 0, stdout |-> Obj("Vpcs", <<"vpc-1">>), stderr |-> "",
           cause |-> "read |0: file already closed"]}

InitRunner ==
    /\ InitCallOthers
    /\ callArg \in {[args |-> a, aws |-> o] : a \in CommandLines, o \in ProcessOutcomes}
    /\ callRet = <<>>

RunCommand ==
    /\ callRet = <<>>
    /\ callRet' = <<Run(callArg.args, callArg.aws)>>
    /\ UNCHANGED callArg

NextRunner == RunCommand /\ UNCHANGED callFrame

SpecRunner == InitRunner /\ [][NextRunner]_vars

\* C21: when the subprocess exits nonzero, Run returns no output and an error
\* naming the command and carrying the subprocess's stderr text; when the
\* subprocess cannot be launched or its I/O fails, Run returns no output and
\* an error naming the command and wrapping the cause; on exit code 0 it
\* returns stdout and a nil error.
C21_FailureClassification ==
    callRet # <<>> =>
        LET aws == callArg.aws
            ret == callRet[1]
            command == "aws " \o callArg.args[1]
        IN /\ (aws.cause = "" /\ aws.exit # 0) =>
                  ret = [out |-> NilDoc, err |-> command \o ": " \o aws.stderr]
           /\ aws.cause # "" =>
                  ret = [out |-> NilDoc, err |-> command \o ": " \o aws.cause]
           /\ (aws.cause = "" /\ aws.exit = 0) =>
                  ret = [out |-> aws.stdout, err |-> ""]

\* C21 witness: the aws binary is missing; Run returned no output and the
\* error "aws s3api: exec: ... not found in $PATH".
C21_Witness ==
    /\ callRet # <<>>
    /\ callArg.args = <<"s3api", "list-buckets">>
    /\ callArg.aws.cause = "exec: \"aws\": executable file not found in $PATH"
    /\ callRet[1] = [out |-> NilDoc,
                     err |-> "aws s3api: exec: \"aws\": executable file not found in $PATH"]

(***************************************************************************)
(* SpecRoutes: the two route-table classifiers of internal/server/server.go *)
(* applied to one route list.                                              *)
(***************************************************************************)

\* strings.HasPrefix on the ids of the model.
IdRests == {"", "0a1"}
HasIdPrefix(id, prefix) == \E rest \in IdRests : id = prefix \o rest

\* Routes: local, internet gateway, bare prefix, NAT, virtual gateway, upper
\* case ids, and ids in the field the other kind belongs in.
Routes ==
    {[GatewayId |-> "local",   NatGatewayId |-> ""],
     [GatewayId |-> "igw-0a1", NatGatewayId |-> ""],
     [GatewayId |-> "igw-",    NatGatewayId |-> ""],
     [GatewayId |-> "",        NatGatewayId |-> "nat-0a1"],
     [GatewayId |-> "vgw-0a1", NatGatewayId |-> ""],
     [GatewayId |-> "IGW-0a1", NatGatewayId |-> "NAT-0a1"],
     [GatewayId |-> "nat-0a1", NatGatewayId |-> "igw-0a1"]}
RouteLists == UNION {[1..n -> Routes] : n \in 0..MaxRoutes}

AnyIgw(routes) == \E i \in 1..Len(routes) : HasIdPrefix(routes[i].GatewayId, "igw-")
AnyNat(routes) == \E i \in 1..Len(routes) : HasIdPrefix(routes[i].NatGatewayId, "nat-")

\* A classifier that looks for a NAT route first.
rtAccess_NatFirst(routes) ==
    IF AnyNat(routes) THEN "egress-only"
    ELSE IF AnyIgw(routes) THEN "public"
    ELSE "isolated"

\* The template function rtAccess: one loop for igw-, then one loop for nat-.
rtAccess(routes) ==
    IF AnyIgw(routes) THEN "public"
    ELSE IF AnyNat(routes) THEN "egress-only"
    ELSE "isolated"

RECURSIVE handleDetailAccess(_, _)
\* handleDetail, case "rt": one loop that breaks on igw- and remembers nat-.
handleDetailAccess(routes, access) ==
    IF routes = <<>> THEN access
    ELSE IF HasIdPrefix(Head(routes).GatewayId, "igw-") THEN "public"
    ELSE handleDetailAccess(Tail(routes),
                            IF HasIdPrefix(Head(routes).NatGatewayId, "nat-")
                            THEN "egress-only" ELSE access)

InitRoutes ==
    /\ InitCallOthers
    /\ callArg \in RouteLists
    /\ callRet = <<>>

\* The route table list page and the detail page render the same table.
ClassifyRoutes ==
    /\ callRet = <<>>
    /\ callRet' = <<[template |-> rtAccess(callArg),
                     detail   |-> handleDetailAccess(callArg, "isolated")]>>
    /\ UNCHANGED callArg

NextRoutes == ClassifyRoutes /\ UNCHANGED callFrame

SpecRoutes == InitRoutes /\ [][NextRoutes]_vars

\* C22: a route table is 'public' if any route has a gateway id starting with
\* 'igw-', even when another route, earlier or later, has a NAT target;
\* otherwise 'egress-only' if any route has a NAT gateway id starting with
\* 'nat-'; otherwise 'isolated'.  rtAccess and the detail view agree.
C22_RouteTableClass ==
    callRet # <<>> =>
        /\ callRet[1].template = callRet[1].detail
        /\ AnyIgw(callArg) => callRet[1].template = "public"
        /\ (~AnyIgw(callArg) /\ AnyNat(callArg)) => callRet[1].template = "egress-only"
        /\ (~AnyIgw(callArg) /\ ~AnyNat(callArg)) => callRet[1].template = "isolated"

\* C22 witness: a NAT route, then a local route, then an internet gateway
\* route: both classifiers answer 'public'.
C22_Witness ==
    /\ callArg = <<[GatewayId |-> "", NatGatewayId |-> "nat-0a1"],
                   [GatewayId |-> "local", NatGatewayId |-> ""],
                   [GatewayId |-> "igw-0a1", NatGatewayId |-> ""]>>
    /\ callRet = <<[template |-> "public", detail |-> "public"]>>

(***************************************************************************)
(* SpecAccess: determineAccess applied to one bucket.                      *)
(***************************************************************************)

S3PublicBlocks ==
    [BlockPublicAcls : BOOLEAN, IgnorePublicAcls : BOOLEAN,
     BlockPublicPolicy : BOOLEAN, RestrictPublicBuckets : BOOLEAN]

\* The fields of S3Bucket that determineAccess reads; <<>> is the nil pointer.
S3Buckets ==
    [PublicAccessBlock : {<<>>} \cup {<<pab>> : pab \in S3PublicBlocks},
     PolicyPublic : BOOLEAN, ACLPublic : BOOLEAN]

InitAccess ==
    /\ InitCallOthers
    /\ callArg \in S3Buckets
    /\ callRet = <<>>

ClassifyBucket ==
    /\ callRet = <<>>
    /\ callRet' = <<determineAccess(callArg)>>
    /\ UNCHANGED callArg

NextAccess == ClassifyBucket /\ UNCHANGED callFrame

SpecAccess == InitAccess /\ [][NextAccess]_vars

FullyBlocked(b) ==
    /\ b.PublicAccessBlock # <<>>
    /\ \A flag \in DOMAIN b.PublicAccessBlock[1] : b.PublicAccessBlock[1][flag]

\* C23: determineAccess is 'private' if a public-access-block exists with all
\* four flags set, even when the policy or the ACL is public; else 'public'
\* if PolicyPublic or ACLPublic; else 'private' if a public-access-block
\* exists; else 'unknown'.
C23_BucketAccess ==
    callRet # <<>> =>
        callRet[1] =
            CASE FullyBlocked(callArg) -> "private"
              [] ~FullyBlocked(callArg) /\ (callArg.PolicyPublic \/ callArg.ACLPublic) -> "public"
              [] /\ ~FullyBlocked(callArg) /\ ~callArg.PolicyPublic /\ ~callArg.ACLPublic
                 /\ callArg.PublicAccessBlock # <<>> -> "private"
              [] OTHER -> "unknown"

\* C23 witness: all four flags are set and both the policy and the ACL are
\* public; the bucket is classified 'private'.
C23_Witness ==
    /\ callRet = <<"private">>
    /\ FullyBlocked(callArg)
    /\ callArg.PolicyPublic /\ callArg.ACLPublic

(***************************************************************************)
(* SpecProfile: resolveInstanceProfile applied to one profile reference    *)
(* under one set of answers of the three IAM calls.                        *)
(***************************************************************************)

\* Profile references as their "/"-separated segments: an ARN, an ARN with a
\* path, a bare name, the empty string.
ProfileRefs ==
    {<<"arn:aws:iam::1:instance-profile", "web">>,
     <<"arn:aws:iam::1:instance-profile", "team", "web">>,
     <<"web">>, <<"">>}

RoleAnswers ==
    {AwsFails} \cup
    {AwsPrints(Obj("AttachedPolicies", names)) :
        names \in {<<>>, <<[PolicyName |-> "ReadOnly"], [PolicyName |-> "Admin"]>>}}
InlineAnswers ==
    {AwsFails} \cup
    {AwsPrints(Obj("PolicyNames", names)) : names \in {<<>>, <<"s3-put", "logs">>}}

ProfileAnswers ==
    {[profile |-> p, attached |-> NotAsked, inline |-> NotAsked] :
        p \in {AwsFails, AwsPrints(Obj("InstanceProfile.Roles", <<>>))}}
    \cup {[profile |-> AwsPrints(Obj("InstanceProfile.Roles", roles)),
           attached |-> a, inline |-> i] :
             roles \in {<<[RoleName |-> "role-a"]>>,
                        <<[RoleName |-> "role-a"], [RoleName |-> "role-b"]>>},
             a \in RoleAnswers, i \in InlineAnswers}

InitProfile ==
    /\ InitCallOthers
    /\ callArg \in {[profileArn |-> r, w |-> w] : r \in ProfileRefs, w \in ProfileAnswers}
    /\ callRet = <<>>

ResolveProfile ==
    /\ callRet = <<>>
    /\ callRet' = <<resolveInstanceProfile(callArg.profileArn, callArg.w)>>
    /\ UNCHANGED callArg

NextProfile == ResolveProfile /\ UNCHANGED callFrame

SpecProfile == InitProfile /\ [][NextProfile]_vars

\* C24: the profile name is the trailing '/'-separated segment of the
\* reference; the role is the first role of the profile; the list is the
\* attached policy names in source order followed by the inline names in
\* source order, each suffixed ' (inline)'; a failed attached or inline call
\* drops only its part; a failed profile lookup yields an empty role and an
\* empty list.
C24_ProfileResolution ==
    callRet # <<>> =>
        LET w   == callArg.w
            ret == callRet[1]
            att == IF w.attached.exit = 0 THEN w.attached.stdout.items ELSE <<>>
            inl == IF w.inline.exit = 0 THEN w.inline.stdout.items ELSE <<>>
        IN /\ ret.profileName = callArg.profileArn[Len(callArg.profileArn)]
           /\ w.profile.exit # 0 => (ret.roleName = "" /\ ret.policies = <<>>)
           /\ (w.profile.exit = 0 /\ w.profile.stdout.items # <<>>) =>
                 /\ ret.roleName = w.profile.stdout.items[1].RoleName
                 /\ Len(ret.policies) = Len(att) + Len(inl)
                 /\ \A i \in 1..Len(att) : ret.policies[i] = att[i].PolicyName
                 /\ \A j \in 1..Len(inl) : ret.policies[Len(att) + j] = inl[j] \o " (inline)"

\* C24 witness: the reference has a path, the attached call fails and the
\* inline call lists two names: the role is the first role and the list is
\* the two inline names, tagged.
C24_Witness ==
    /\ callRet # <<>>
    /\ callArg.profileArn = <<"arn:aws:iam::1:instance-profile", "team", "web">>
    /\ callArg.w.attached = AwsFails
    /\ callRet[1].profileName = "web"
    /\ callRet[1].roleName = "role-a"
    /\ callRet[1].policies = <<"s3-put (inline)", "logs (inline)">>

(***************************************************************************)
(* SpecQueue: the body of the SQS loop of SyncStreamingData applied to one *)
(* queue URL under one answer of get-queue-attributes.                     *)
(***************************************************************************)

QueueNames ==
    {"jobs", "jobs.fifo", "jobs.FIFO", ".fifo", "jobs.fifo.fifo", "jobs.FIFO.fifo",
     "jobs.fifo.bak", "jobsfifo", "fifo", ""}
\* Those of QueueNames that end with ".fifo".
FifoNames == {"jobs.fifo", ".fifo", "jobs.fifo.fifo", "jobs.FIFO.fifo"}

\* Queue URLs as their "/"-separated segments; in the second form the account
\* segment ends with ".fifo".
QueueUrls ==
    {QueueUrl(name) : name \in QueueNames}
    \cup {<<"https:", "", "sqs.us-east-1.amazonaws.com", "acct.fifo", name>> :
             name \in {"jobs", "jobs.fifo"}}

AttributeAnswers ==
    {AwsFails, AwsPrints(EmptyObj)}
    \cup {AwsPrints(Obj("Attributes", <<attrs>>)) :
             attrs \in {[QueueArn |-> "arn:aws:sqs:q"],
                        [QueueArn |-> "arn:aws:sqs:q", FifoQueue |-> "true"],
                        [QueueArn |-> "arn:aws:sqs:q", FifoQueue |-> "false"]}}

InitQueue ==
    /\ InitCallOthers
    /\ callArg \in {[url |-> u, awsAttr |-> a] : u \in QueueUrls, a \in AttributeAnswers}
    /\ callRet = <<>>

EnrichOneQueue ==
    /\ callRet = <<>>
    /\ callRet' = <<EnrichQueue(callArg.url, callArg.awsAttr)>>
    /\ UNCHANGED callArg

NextQueue == EnrichOneQueue /\ UNCHANGED callFrame

SpecQueue == InitQueue /\ [][NextQueue]_vars

\* C25: a queue is marked FIFO exactly when its name, the last '/'-separated
\* segment of the queue URL, ends with the case-sensitive suffix '.fifo'; the
\* flag does not depend on any attribute returned by, or on the success of,
\* get-queue-attributes.
C25_FifoByName ==
    callRet # <<>> =>
        /\ callRet[1].QueueName = callArg.url[Len(callArg.url)]
        /\ callRet[1].IsFIFO <=> callRet[1].QueueName \in FifoNames

\* C25 witness: the queue jobs.fifo is marked FIFO although the attributes
\* call failed.
C25_Witness ==
    /\ callRet # <<>>
    /\ callRet[1].QueueName = "jobs.fifo"
    /\ callArg.awsAttr = AwsFails
    /\ callRet[1].IsFIFO

(***************************************************************************)
(* SpecReport: printSyncSection (internal/cli/sync.go) applied to what one *)
(* category's orchestrator returned.  The output is the list of lines      *)
(* printed, each kept as the values its format string is filled with.      *)
(***************************************************************************)

ReportServices == <<"vpcs", "subnets", "igws">>

\* What a sub-resource can report: a count, or an error with Count zero.
Outcomes == {[Count |-> 0, Error |-> ""], [Count |-> 2, Error |-> ""],
             [Count |-> 0, Error |-> "aws ec2: AccessDenied"]}
ResultLists ==
    UNION {{[i \in 1..n |-> SyncResult(ReportServices[i], o[i].Count, o[i].Error)] :
               o \in [1..n -> Outcomes]} : n \in 0..MaxResults}

RECURSIVE ErrorLines(_)
\* "  x <Service>: <Error>" for every result with an error, in order.
ErrorLines(res) ==
    IF res = <<>> THEN <<>>
    ELSE (IF Head(res).Error # ""
          THEN <<[kind |-> "failed", service |-> Head(res).Service,
                  text |-> Head(res).Error, count |-> 0]>>
          ELSE <<>>) \o ErrorLines(Tail(res))

RECURSIVE Total(_)
\* total += r.Count over the results without an error.
Total(res) ==
    IF res = <<>> THEN 0
    ELSE (IF Head(res).Error = "" THEN Head(res).Count ELSE 0) + Total(Tail(res))

Line(kind, text, count) == [kind |-> kind, service |-> "", text |-> text, count |-> count]

\* printSyncSection(name, fn), given what fn returned.
printSyncSection(name, res, err) ==
    <<Line("header", name, 0)>>
    \o (IF err # "" THEN <<Line("fatal", err, 0)>>
        ELSE ErrorLines(res)
             \o (IF ErrorLines(res) = <<>> THEN <<Line("resources", "", Total(res))>> ELSE <<>>)
             \o <<Line("blank", "", 0)>>)

InitReport ==
    /\ InitCallOthers
    /\ callArg \in {[results |-> r, err |-> e] :
                       r \in ResultLists, e \in {"", "aws sts: ExpiredToken"}}
    /\ callRet = <<>>

PrintSection ==
    /\ callRet = <<>>
    /\ callRet' = <<printSyncSection("Network", callArg.results, callArg.err)>>
    /\ UNCHANGED callArg

NextReport == PrintSection /\ UNCHANGED callFrame

SpecReport == InitReport /\ [][NextReport]_vars

\* The lines printed that show a count.
CountLines == {i \in 1..Len(callRet[1]) : callRet[1][i].kind = "resources"}

\* C26: in the report of a category whose result list mixes successes and
\* failures, every failed sub-resource's diagnostic text is shown and the
\* counts of the successful siblings are still shown; a run with no failures
\* shows the resource count.
C26_FailuresAndCountsShown ==
    (callRet # <<>> /\ callArg.err = "") =>
        LET res == callArg.results IN
        /\ \A i \in 1..Len(res) :
              res[i].Error # "" =>
                  \E l \in 1..Len(callRet[1]) :
                      /\ callRet[1][l].kind = "failed"
                      /\ callRet[1][l].service = res[i].Service
                      /\ callRet[1][l].text = res[i].Error
        /\ (\E i \in 1..Len(res) : res[i].Error = "") =>
              \E l \in CountLines : callRet[1][l].count = Total(res)
        /\ (\A i \in 1..Len(res) : res[i].Error = "") =>
              \E l \in CountLines : callRet[1][l].count = Total(res)

(***************************************************************************)
(* SpecSyncFault: the sync process of Spec over a store that either works   *)
(* or rejects every statement for the whole run.                           *)
(***************************************************************************)

InitSyncFault ==
    /\ cache \in PriorCaches
    /\ now = 1
    /\ dbFault \in BOOLEAN
    /\ InitCacheVars
    /\ InitTrackerVars
    /\ pc = AtIdle
    /\ results = <<>>
    /\ topErr = ""
    /\ acc = <<>>
    /\ prior = cache
    /\ fetched = <<>>
    /\ view = [data |-> <<>>, err |-> ""]
    /\ loadCalls = <<>>
    /\ InitAuxOff

SpecSyncFault == InitSyncFault /\ [][Next]_vars

\* The buckets the list-buckets call of this run printed.
ListedBuckets == ListField(fetched["s3"].stdout, "Buckets")

C28_SuccessMeansCached ==
    pc = Returned("SyncVPCData") =>
        \A i \in 1..Len(VPCJobs) :
            LET key == Region \o ":" \o VPCJobs[i].name IN
            results[i].Error = "" =>
                /\ key \in DOMAIN cache
                /\ cache[key].value = fetched[VPCJobs[i].name].stdout
                /\ cache[key].synced_at = now

====
